---------------------------- MODULE Spec2Model ----------------------------
(***************************************************************************)
(* A model of the stock-span analyser: the stack-based span calculator,    *)
(* the queue-based moving-average calculator, the sentiment/correlation    *)
(* module, the assembly of an AnalysisResult in App.processStockData and   *)
(* the rule-based ConversationalAI with the React component that feeds it. *)
(*                                                                         *)
(* Prices are integers (a unit of price); sums of integers are exact in    *)
(* IEEE-754 doubles, so integer arithmetic is the code's arithmetic on     *)
(* them.  A quotient is kept as the pair [num, den] the code divides.      *)
(***************************************************************************)
EXTENDS Integers, Sequences, FiniteSets, TLC

\* ------------------------------------------------------------------ bounds
MaxPrice == 3        \* closes handed to calculateSpan are 1..MaxPrice
MaxSpanLen == 4      \* longest price sequence handed to calculateSpan
MaxClose == 2        \* closes handed to calculateMovingAverages are 1..MaxClose
MaxMALen == 4        \* longest series handed to calculateMovingAverages
MaxWindow == 3       \* window sizes tried besides the default 5, 10, 20
MaxWindowCount == 2  \* most window sizes of one non-default calculator
MaxCalls == 2        \* most calls made on one calculator instance
MaxVoiceCalls == 3   \* most startListening calls on one VoiceInterface
MantissaBits == 7    \* significand width of the modelled floats (53 in a double)
ScoreFracBits == 4   \* a sentiment score is a multiple of 2^-ScoreFracBits
MaxCorrLen == 3      \* longest series handed to the correlation
MaxCorrSpan == 2     \* spans handed to the correlation are 0..MaxCorrSpan
RandomDen == 2       \* Math.random() returns k/RandomDen, k in 0..RandomDen-1
RngPeriod == 2       \* the random draws of one load repeat with this period
MaxDate == 2         \* dates of a loaded series are day numbers 1..MaxDate
MaxLoadLen == 3      \* longest series handed to processStockData
MaxLoads == 2        \* loads of one session
DrawDen == 3         \* the chat's Math.random() returns k/DrawDen
MaxQueryWords == 2   \* most vocabulary words of a generated query
MaxCtxClose == 3     \* closes of the enumerated chat series are 1..MaxCtxClose
MaxRun == 10         \* longest run of low closes before the latest close

\* --------------------------------------------------------------- variables
VARIABLES
    \* StockSpanCalculator
    stack,      \* this.stack: sequence of [index, price], bottom first
    prices,     \* the argument of the calculateSpan call in progress
    spans,      \* the local array spans
    i,          \* the loop variable of calculateSpan (0-based)
    spanPc,     \* "idle" | "loop" | "returned"
    spanCalls,  \* history: calculateSpan calls made on the instance so far
    popLog      \* history: the indices popped during the call in progress

    ,
    \* MovingAverageCalculator
    windowSizes,  \* the constructor's argument
    queues,       \* this.queues: window size -> FIFO of closes, oldest first
    sums,         \* this.sums: window size -> running sum
    maData,       \* the argument of the calculateMovingAverages call
    result,       \* the local array result
    maIndex,      \* index of the outer forEach (0-based)
    maWin,        \* position of the inner forEach in windowSizes (1-based)
    averages,     \* the record being filled for stockData[maIndex]
    maPc,         \* "new" | "idle" | "forEach" | "returned"
    maCalls,      \* history: calculateMovingAverages calls on the instance
    \* SentimentAnalyzer.calculateSentimentSpanCorrelation
    corrSentiment,  \* the argument sentimentData
    corrStock,      \* the argument stockData
    corrResult,     \* the value returned
    corrPc,         \* "idle" | "analyzed" | "returned"
    \* App
    analysisResult, \* the state analysisResult (id 0: null)
    activeTab,      \* "upload" | "chart" | "analysis" | "chat"
    isProcessing,   \* the state isProcessing
    loadInput,      \* the argument of the last processStockData call
    appPc,          \* "idle" | "setActiveTab": inside processStockData
    \* ConversationalAI
    aiStockData,      \* this.stockData
    aiMovingAverages, \* this.movingAverages
    aiPc,             \* "ready" | "answered": a processQuery promise settled
    lastQuery,        \* the argument of the last processQuery
    lastAnswer,       \* what its promise settled with
    lastHandler,      \* the handler that produced it
    lastReads,        \* the fields the handlers read
    \* ConversationalInterface, DataUploader
    chatProps,        \* the props of the last render of the chat
    effectPending,    \* the updateData effect of that render has yet to run
    pendingUploads,   \* handleFileUpload calls awaiting file.text()
    csvText,          \* the text of the file last read, as its header and rows
    error,            \* DataUploader's state error ("" : null)
    \* VoiceInterface, ConversationalInterface's voice input
    recognition,      \* this.recognition is not null
    isListening,      \* this.isListening
    recognizer,       \* the SpeechRecognition object: "idle" | "started" |
                      \* "stopping" (stop() called) | "ending" (a result or
                      \* an error delivered, the end event still to come)
    promises,         \* the promises returned by startListening, in order:
                      \* "pending" | "resolved" | "rejected"
    handlers,         \* the promise whose resolve and reject the handlers
                      \* onresult, onerror hold (0: none installed)
    session,          \* the promise of the call whose start() began the
                      \* current or the last session (0: none)
    uiListening,      \* ConversationalInterface's state isListening
    voiceError,       \* its state voiceError ("" : null)
    inputText         \* its state inputText

spanVars == <<stack, prices, spans, i, spanPc, spanCalls, popLog>>

maVars == <<windowSizes, queues, sums, maData, result, maIndex, maWin,
            averages, maPc, maCalls>>

corrVars == <<corrSentiment, corrStock, corrResult, corrPc>>

appVars == <<analysisResult, activeTab, isProcessing, loadInput, appPc>>

aiVars == <<aiStockData, aiMovingAverages, aiPc, lastQuery, lastAnswer,
            lastHandler, lastReads>>

uiVars == <<chatProps, effectPending, pendingUploads, csvText, error>>

voiceVars == <<recognition, isListening, recognizer, promises, handlers,
               session, uiListening, voiceError, inputText>>

vars == <<stack, prices, spans, i, spanPc, spanCalls, popLog,
          windowSizes, queues, sums, maData, result, maIndex, maWin,
          averages, maPc, maCalls,
          corrSentiment, corrStock, corrResult, corrPc,
          analysisResult, activeTab, isProcessing, loadInput, appPc,
          aiStockData, aiMovingAverages, aiPc, lastQuery, lastAnswer,
          lastHandler, lastReads, chatProps, effectPending, pendingUploads,
          csvText, error,
          recognition, isListening, recognizer, promises, handlers,
          session, uiListening, voiceError, inputText>>

\* ----------------------------------------------------------------- helpers
\* All sequences over S of length 0..n.
SeqsUpTo(S, n) == UNION {[1..k -> S] : k \in 0..n}

Last(s) == s[Len(s)]

ButLast(s) == SubSeq(s, 1, Len(s) - 1)

\* ------------------------------------------------- StockSpanCalculator
PriceSeqs == SeqsUpTo(1..MaxPrice, MaxSpanLen)

\* The while condition's second conjunct: top price <= current price.
ShouldPopStrict(top, price) == top.price < price

\* No entry is ever popped.
ShouldPopNever(top, price) == FALSE

ShouldPop(top, price) == top.price <= price

\* One pop only (an if in place of the while).
RECURSIVE PopWhile(_, _)
PopOnce(stk, price) ==
    IF Len(stk) > 0 /\ ShouldPop(Last(stk), price) THEN ButLast(stk) ELSE stk

\* while (stack.length > 0 && top.price <= prices[i]) stack.pop()
PopWhile(stk, price) ==
    IF Len(stk) > 0 /\ ShouldPop(Last(stk), price)
    THEN PopWhile(ButLast(stk), price)
    ELSE stk

\* The span of an empty stack taken as i.
SpanOfNoPlusOne(stk, idx) ==
    IF Len(stk) = 0 THEN idx ELSE idx - Last(stk).index

\* span = stack.length === 0 ? i + 1 : i - top.index
SpanOf(stk, idx) ==
    IF Len(stk) = 0 THEN idx + 1 ELSE idx - Last(stk).index

\* The stack left as the previous call returned it.
KeepStack(stk) == stk

\* this.stack = []
ResetStack(stk) == << >>

\* The entry pushed twice.
PushTwice(stk, entry) == Append(Append(stk, entry), entry)

\* this.stack.push({ index: i, price: prices[i] })
Push(stk, entry) == Append(stk, entry)

\* The indices the while loop pops for this price, in the order popped.
RECURSIVE PoppedBy(_, _)
PoppedBy(stk, price) ==
    IF Len(stk) > 0 /\ ShouldPop(Last(stk), price)
    THEN <<Last(stk).index>> \o PoppedBy(ButLast(stk), price)
    ELSE << >>

\* calculateSpan(prices): spans = [], this.stack = [], i = 0.
CalculateSpanCall(p) ==
    /\ spanPc \in {"idle", "returned"}
    /\ spanCalls < MaxCalls
    /\ prices' = p
    /\ spans' = << >>
    /\ stack' = ResetStack(stack)
    /\ i' = 0
    /\ spanPc' = "loop"
    /\ spanCalls' = spanCalls + 1
    /\ popLog' = << >>
    /\ UNCHANGED <<maVars, corrVars, appVars, aiVars, uiVars, voiceVars>>

\* One iteration of the for loop: pop, take the span, push.
CalculateSpanIteration ==
    /\ spanPc = "loop"
    /\ i < Len(prices)
    /\ LET popped == PopWhile(stack, prices[i + 1])
       IN  /\ spans' = Append(spans, SpanOf(popped, i))
           /\ stack' = Push(popped, [index |-> i, price |-> prices[i + 1]])
    /\ popLog' = popLog \o PoppedBy(stack, prices[i + 1])
    /\ i' = i + 1
    /\ UNCHANGED <<prices, spanPc, spanCalls>>
    /\ UNCHANGED <<maVars, corrVars, appVars, aiVars, uiVars, voiceVars>>

\* The loop condition fails: return spans.
CalculateSpanReturn ==
    /\ spanPc = "loop"
    /\ i >= Len(prices)
    /\ spanPc' = "returned"
    /\ UNCHANGED <<stack, prices, spans, i, spanCalls, popLog>>
    /\ UNCHANGED <<maVars, corrVars, appVars, aiVars, uiVars, voiceVars>>

\* calculateSpan as a function of its argument, on a calculator whose stack
\* holds stk when the loop reaches index idx.
RECURSIVE SpanLoop(_, _, _, _)
SpanLoop(p, idx, stk, acc) ==
    IF idx >= Len(p) THEN acc
    ELSE LET popped == PopWhile(stk, p[idx + 1])
         IN  SpanLoop(p, idx + 1,
                      Push(popped, [index |-> idx, price |-> p[idx + 1]]),
                      Append(acc, SpanOf(popped, idx)))

CalculateSpan(p) == SpanLoop(p, 0, << >>, << >>)

\* ------------------------------------------------- floating point
\* A number that is not an integer is kept as its numerator over a power of
\* two, and every arithmetic result is rounded to MantissaBits significant
\* bits, to nearest and ties to even, as IEEE-754 rounds a double's.
Abs(v) == IF v < 0 THEN 0 - v ELSE v

Sign(v) == IF v < 0 THEN 0 - 1 ELSE 1

RECURSIVE BitLength(_)
BitLength(a) == IF a = 0 THEN 0 ELSE 1 + BitLength(a \div 2)

RECURSIVE Pow2(_)
Pow2(k) == IF k = 0 THEN 1 ELSE 2 * Pow2(k - 1)

RoundFloat(v) ==
    LET a == Abs(v)
        bl == BitLength(a)
    IN  IF bl <= MantissaBits THEN v
        ELSE LET unit == Pow2(bl - MantissaBits)
                 q == a \div unit
                 r == a % unit
                 up == 2 * r > unit \/ (2 * r = unit /\ q % 2 = 1)
             IN  Sign(v) * (IF up THEN q + 1 ELSE q) * unit

FAdd(a, b) == RoundFloat(a + b)

FSub(a, b) == RoundFloat(a - b)

FMul(a, b) == RoundFloat(a * b)

\* ------------------------------------------------- MovingAverageCalculator
Range(s) == {s[k] : k \in DOMAIN s}

Injective(s) == \A a, b \in DOMAIN s : a # b => s[a] # s[b]

DefaultWindowSizes == <<5, 10, 20>>

\* The window-size lists a calculator is constructed with: the default and
\* every list of distinct positive sizes within the bounds.
WindowConfigs ==
    {DefaultWindowSizes} \cup
    {ws \in SeqsUpTo(1..MaxWindow, MaxWindowCount) : Len(ws) > 0 /\ Injective(ws)}

ExampleCloses == <<1, 2, 3, 4, 5>>

\* A series with the given closes, dated by position.
SeriesOf(closes) == [k \in 1..Len(closes) |-> [date |-> k, close |-> closes[k]]]

MASeries ==
    {SeriesOf(c) : c \in SeqsUpTo(1..MaxClose, MaxMALen) \cup {ExampleCloses}}

\* Closes whose sum does not fit the significand although each close does, as
\* 0.1 and 0.2 in doubles: the largest power of two next to a small close.
RoundedCloses ==
    LET big == Pow2(MantissaBits)
    IN  {<<big, 1>>, <<1, big, 1>>, <<big, 1, big>>, <<big, big + 2, 1>>}

RoundedSeries == {SeriesOf(c) : c \in RoundedCloses}

\* The quotient a / b as the code writes it.
Quot(a, b) == [num |-> a, den |-> b]

\* The average always divided by the window size.
AverageOverWindow(sum, qlen, windowSize) == Quot(sum, windowSize)

\* queue.length === windowSize ? sum / windowSize : sum / queue.length
Average(sum, qlen, windowSize) ==
    IF qlen = windowSize THEN Quot(sum, windowSize) ELSE Quot(sum, qlen)

\* The value stored under every window size.
SetEveryWindow(map, w, v) == [x \in DOMAIN map |-> v]

\* queue.push / queue.shift on this.queues.get(w), this.sums.set(w, sum):
\* the entry of window size w becomes v.
SetWindow(map, w, v) == [map EXCEPT ![w] = v]

\* The body of the inner forEach for one window size: push and add, shift and
\* subtract when the window is exceeded, then the average. sum += and sum -=
\* are additions of numbers, each rounded to the significand.
WindowStep(queue, sum, windowSize, close) ==
    LET q1 == Append(queue, close)
        s1 == FAdd(sum, close)
        over == Len(q1) > windowSize
        q2 == IF over THEN Tail(q1) ELSE q1
        s2 == IF over THEN FSub(s1, Head(q1)) ELSE s1
    IN  [queue |-> q2, sum |-> s2, avg |-> Average(s2, Len(q2), windowSize)]

\* The record pushed without its date.
AverageRecordUndated(data, ma) == [date |-> 0, ma |-> ma]

\* averages = { date: data.date } with the averages of the window sizes.
AverageRecord(data, ma) == [date |-> data.date, ma |-> ma]

\* windowSizes.forEach(size => { queues.set(size, []); sums.set(size, 0) })
ResetQueues(ws) == [w \in Range(ws) |-> << >>]

ResetSums(ws) == [w \in Range(ws) |-> 0]

\* new MovingAverageCalculator(ws)
MAConstruct(ws) ==
    /\ maPc = "new"
    /\ windowSizes' = ws
    /\ queues' = ResetQueues(ws)
    /\ sums' = ResetSums(ws)
    /\ maPc' = "idle"
    /\ UNCHANGED <<maData, result, maIndex, maWin, averages, maCalls>>
    /\ UNCHANGED <<spanVars, corrVars, appVars, aiVars, uiVars, voiceVars>>

\* The per-window state left as the previous call returned it.
KeepWindows(map, ws, v) == map

\* The reset at the start of calculateMovingAverages:
\* windowSizes.forEach(size => { queues.set(size, []); sums.set(size, 0) })
ClearWindows(map, ws, v) == [w \in DOMAIN map \cup Range(ws) |-> IF w \in Range(ws) THEN v ELSE map[w]]

\* calculateMovingAverages(stockData): result = [], the reset, and the outer
\* forEach entered.
MACall(data) ==
    /\ maPc \in {"idle", "returned"}
    /\ maCalls < MaxCalls
    /\ maCalls' = maCalls + 1
    /\ maData' = data
    /\ result' = << >>
    /\ queues' = ClearWindows(queues, windowSizes, << >>)
    /\ sums' = ClearWindows(sums, windowSizes, 0)
    /\ maIndex' = 0
    /\ maWin' = 1
    /\ averages' = IF Len(data) > 0 THEN AverageRecord(data[1], << >>)
                   ELSE [date |-> 0, ma |-> << >>]
    /\ maPc' = "forEach"
    /\ UNCHANGED windowSizes
    /\ UNCHANGED <<spanVars, corrVars, appVars, aiVars, uiVars, voiceVars>>

\* The inner forEach's body for windowSizes[maWin] and stockData[maIndex].
MAWindowStep ==
    /\ maPc = "forEach"
    /\ maIndex < Len(maData)
    /\ maWin <= Len(windowSizes)
    /\ LET w == windowSizes[maWin]
           st == WindowStep(queues[w], sums[w], w, maData[maIndex + 1].close)
       IN  /\ queues' = SetWindow(queues, w, st.queue)
           /\ sums' = SetWindow(sums, w, st.sum)
           /\ averages' = [averages EXCEPT !.ma = (w :> st.avg) @@ averages.ma]
    /\ maWin' = maWin + 1
    /\ UNCHANGED <<windowSizes, maData, result, maIndex, maPc, maCalls>>
    /\ UNCHANGED <<spanVars, corrVars, appVars, aiVars, uiVars, voiceVars>>

\* result.push(averages), and the next element's record { date: data.date }.
MAPush ==
    /\ maPc = "forEach"
    /\ maIndex < Len(maData)
    /\ maWin > Len(windowSizes)
    /\ result' = Append(result, averages)
    /\ maIndex' = maIndex + 1
    /\ maWin' = 1
    /\ averages' = IF maIndex + 1 < Len(maData)
                   THEN AverageRecord(maData[maIndex + 2], << >>)
                   ELSE averages
    /\ UNCHANGED <<windowSizes, queues, sums, maData, maPc, maCalls>>
    /\ UNCHANGED <<spanVars, corrVars, appVars, aiVars, uiVars, voiceVars>>

\* The outer forEach is over: return result.
MAReturn ==
    /\ maPc = "forEach"
    /\ maIndex >= Len(maData)
    /\ maPc' = "returned"
    /\ UNCHANGED <<windowSizes, queues, sums, maData, result, maIndex, maWin,
                   averages, maCalls>>
    /\ UNCHANGED <<spanVars, corrVars, appVars, aiVars, uiVars, voiceVars>>

\* calculateMovingAverages as a function of the window sizes and the series,
\* on a calculator just reset.
RECURSIVE MAWindows(_, _, _, _, _, _)
MAWindows(ws, k, qs, ss, avgs, close) ==
    IF k > Len(ws) THEN [queues |-> qs, sums |-> ss, ma |-> avgs]
    ELSE LET w == ws[k]
             st == WindowStep(qs[w], ss[w], w, close)
         IN  MAWindows(ws, k + 1, SetWindow(qs, w, st.queue),
                       SetWindow(ss, w, st.sum), (w :> st.avg) @@ avgs, close)

RECURSIVE MALoop(_, _, _, _, _, _)
MALoop(ws, data, idx, qs, ss, acc) ==
    IF idx >= Len(data) THEN acc
    ELSE LET st == MAWindows(ws, 1, qs, ss, << >>, data[idx + 1].close)
         IN  MALoop(ws, data, idx + 1, st.queues, st.sums,
                    Append(acc, AverageRecord(data[idx + 1], st.ma)))

CalculateMovingAverages(ws, data) ==
    MALoop(ws, data, 0, ResetQueues(ws), ResetSums(ws), << >>)

MAInit ==
    /\ windowSizes = << >>
    /\ queues = << >>
    /\ sums = << >>
    /\ maData = << >>
    /\ result = << >>
    /\ maIndex = 0
    /\ maWin = 1
    /\ averages = [date |-> 0, ma |-> << >>]
    /\ maPc = "new"
    /\ maCalls = 0

MANext ==
    \/ \E ws \in WindowConfigs : MAConstruct(ws)
    \/ \E data \in MASeries : MACall(data)
    \/ MAWindowStep
    \/ MAPush
    \/ MAReturn

\* The calculator on series whose running sums are rounded as well.
MARoundedNext ==
    \/ \E ws \in WindowConfigs : MAConstruct(ws)
    \/ \E data \in MASeries \cup RoundedSeries : MACall(data)
    \/ MAWindowStep
    \/ MAPush
    \/ MAReturn

\* ------------------------------------------------- SentimentAnalyzer
ScoreScale == Pow2(ScoreFracBits)

\* The values a correlation can return: the number 0, NaN, or the quotient
\* num / sqrt(rad) of a non-zero numerator and a positive radicand.
CorrZero == [kind |-> "zero", num |-> 0, rad |-> 0]

CorrNaN == [kind |-> "NaN", num |-> 0, rad |-> 0]

CorrRatio(num, rad) == [kind |-> "ratio", num |-> num, rad |-> rad]

\* x.reduce((a, b) => a + b, 0)
RECURSIVE FSum(_, _, _)
FSum(x, k, acc) ==
    IF k > Len(x) THEN acc ELSE FSum(x, k + 1, FAdd(acc, x[k]))

\* x.reduce((sum, xi, i) => sum + xi * y[i], 0)
RECURSIVE FSumProd(_, _, _, _)
FSumProd(x, y, k, acc) ==
    IF k > Len(x) THEN acc
    ELSE FSumProd(x, y, k + 1, FAdd(acc, FMul(x[k], y[k])))

\* denominator === 0 ? 0 : numerator / denominator, the denominator being
\* Math.sqrt(radicand): NaN for a negative radicand, 0 for a zero one.
CorrQuotient(numerator, radicand) ==
    IF radicand = 0 THEN CorrZero
    ELSE IF radicand < 0 THEN CorrNaN
    ELSE IF numerator = 0 THEN CorrZero
    ELSE CorrRatio(numerator, radicand)

PearsonCorrelation(x, y) ==
    LET n == Len(x)
        sumX == FSum(x, 1, 0)
        sumY == FSum(y, 1, 0)
        sumXY == FSumProd(x, y, 1, 0)
        sumXX == FSumProd(x, x, 1, 0)
        sumYY == FSumProd(y, y, 1, 0)
        numerator == FSub(FMul(n, sumXY), FMul(sumX, sumY))
        radicand == FMul(FSub(FMul(n, sumXX), FMul(sumX, sumX)),
                         FSub(FMul(n, sumYY), FMul(sumY, sumY)))
    IN  IF n = 0 THEN CorrZero ELSE CorrQuotient(numerator, radicand)

\* The guard of calculateSentimentSpanCorrelation.
CorrGuard(sentimentData, stockData) ==
    Len(sentimentData) # Len(stockData) \/ Len(sentimentData) < 2

CalculateSentimentSpanCorrelation(sentimentData, stockData) ==
    IF CorrGuard(sentimentData, stockData) THEN CorrZero
    ELSE PearsonCorrelation(
             [k \in 1..Len(sentimentData) |-> sentimentData[k].score],
             [k \in 1..Len(stockData) |-> stockData[k].span])

\* Sentiment scores tried: -1, 0 and two fractions, in units of 1/ScoreScale.
SampleScores == {0 - ScoreScale, 0, 5, 13}

SentimentOf(scores) ==
    [k \in 1..Len(scores) |->
        [date |-> k, score |-> scores[k], confidence |-> Quot(3, 5),
         volume |-> 100]]

\* A span of 0 stands for a record without span too: the code reads
\* s.span || 0.
StockOfSpans(sp) ==
    [k \in 1..Len(sp) |-> [date |-> k, close |-> 1, span |-> sp[k]]]

CorrSentiments == {SentimentOf(x) : x \in SeqsUpTo(SampleScores, MaxCorrLen)}

CorrStocks == {StockOfSpans(y) : y \in SeqsUpTo(0..MaxCorrSpan, MaxCorrLen)}

CorrelationCall(sentimentData, stockData) ==
    /\ corrPc = "idle"
    /\ corrSentiment' = sentimentData
    /\ corrStock' = stockData
    /\ corrResult' = CalculateSentimentSpanCorrelation(sentimentData, stockData)
    /\ corrPc' = "returned"
    /\ UNCHANGED <<spanVars, maVars, appVars, aiVars, uiVars, voiceVars>>

\* The caller takes the value; the call's arguments are gone.
CorrelationTaken ==
    /\ corrPc = "returned"
    /\ corrPc' = "idle"
    /\ corrSentiment' = << >>
    /\ corrStock' = << >>
    /\ corrResult' = CorrZero
    /\ UNCHANGED <<spanVars, maVars, appVars, aiVars, uiVars, voiceVars>>

CorrInit ==
    /\ corrSentiment = << >>
    /\ corrStock = << >>
    /\ corrResult = CorrZero
    /\ corrPc = "idle"

CorrNext ==
    \/ \E sd \in CorrSentiments, st \in CorrStocks : CorrelationCall(sd, st)
    \/ CorrelationTaken

\* The scores, in units of 1/ScoreScale, that are the numbers v.
ScoresOf(v) == [k \in 1..Len(v) |-> v[k] * ScoreScale]

\* Numbers close to each other and large for the significand: the squares
\* n * sumXX and sumX * sumX need twice their bits.
NearbyValues ==
    LET a == Pow2((MantissaBits + 1) \div 2)
    IN  {SeqA \in SeqsUpTo({a + 3, a + 4}, 2) : Len(SeqA) = 2}

\* The same numbers handed over as scores and as spans.
SameValues == SeqsUpTo(0..MaxCorrSpan, MaxCorrLen) \cup NearbyValues

CorrSameNext ==
    \/ \E sd \in CorrSentiments, st \in CorrStocks : CorrelationCall(sd, st)
    \/ \E v \in SameValues :
           CorrelationCall(SentimentOf(ScoresOf(v)), StockOfSpans(v))
    \/ CorrelationTaken

\* calculateSpanForStockData: each record with the span of its index.
CalculateSpanForStockData(stockData) ==
    LET sp == CalculateSpan([k \in 1..Len(stockData) |-> stockData[k].close])
    IN  [k \in 1..Len(stockData) |->
            [date |-> stockData[k].date, open |-> stockData[k].open,
             high |-> stockData[k].high, low |-> stockData[k].low,
             close |-> stockData[k].close, volume |-> stockData[k].volume,
             span |-> sp[k]]]

\* A record of the ingested series.
Bar(date, close) ==
    [date |-> date, open |-> close, high |-> close + 1, low |-> close - 1,
     close |-> close, volume |-> 1000000]

\* The series with these closes, dated day by day.
SeriesBars(closes) == [k \in 1..Len(closes) |-> Bar(k, closes[k])]

\* ------------------------------------------------- analyzeSentiment
\* The j-th Math.random() of a call (1-based), as a numerator over RandomDen.
Draw(rng, j) == rng[((j - 1) % Len(rng)) + 1]

\* a / b rounded to the nearest integer (b > 0).
RoundDiv(a, b) ==
    IF a >= 0 THEN (2 * a + b) \div (2 * b)
    ELSE 0 - ((2 * (0 - a) + b) \div (2 * b))

Max2(a, b) == IF a >= b THEN a ELSE b

Min2(a, b) == IF a <= b THEN a ELSE b

\* priceChange / 5 as the quotient num / den: 0 for the first record, else
\* ((close - previous close) / previous close) * 100 / 5.
PriceChangeOver5(stockData, idx) ==
    IF idx > 0
    THEN Quot(20 * (stockData[idx + 1].close - stockData[idx].close),
              stockData[idx].close)
    ELSE Quot(0, 1)

\* The score that is NaN, kept apart from every number a score can be: 0 / 0
\* is NaN, and Math.tanh, +, Math.min and Math.max all return NaN on NaN.
NaNScore == 0 - 2 * ScoreScale

\* Math.tanh(x) in units of 1/ScoreScale: NaN at 0 / 0; 0 at 0; 1 at Infinity
\* and -1 at -Infinity (x.den = 0); where 2|x| >= ScoreFracBits
\* + 2 the value is within half a unit of +-1 (1 - tanh x < 2 e^(-2x)); below
\* that any value of x's sign.
TanhValues(x) ==
    IF x.num = 0 /\ x.den = 0 THEN {NaNScore}
    ELSE IF x.num = 0 THEN {0}
    ELSE IF 2 * Abs(x.num) >= (ScoreFracBits + 2) * x.den
    THEN {Sign(x.num) * ScoreScale}
    ELSE {Sign(x.num) * v : v \in 0..ScoreScale}

\* (Math.random() - 0.5) * 0.4 in units of 1/ScoreScale.
Noise(r) == RoundDiv(ScoreScale * (2 * r - RandomDen), 5 * RandomDen)

\* Math.max(-1, Math.min(1, baseSentiment + noise))
ClampScore(v) == Max2(0 - ScoreScale, Min2(ScoreScale, v))

\* The record returned for the record at index idx, the tanh being base.
SentimentSample(stockData, idx, rng, base) ==
    [date |-> stockData[idx + 1].date,
     score |-> IF base = NaNScore THEN NaNScore
               ELSE ClampScore(base + Noise(Draw(rng, 3 * idx + 1))),
     confidence |-> Quot(3 * RandomDen + 2 * Draw(rng, 3 * idx + 2),
                         5 * RandomDen),
     volume |-> (100 * RandomDen + 900 * Draw(rng, 3 * idx + 3)) \div RandomDen]

\* The arrays analyzeSentiment can return from index idx on.
RECURSIVE AnalyzeSentimentFrom(_, _, _, _)
AnalyzeSentimentFrom(stockData, rng, idx, acc) ==
    IF idx >= Len(stockData) THEN {acc}
    ELSE UNION {AnalyzeSentimentFrom(stockData, rng, idx + 1,
                    Append(acc, SentimentSample(stockData, idx, rng, base))) :
                base \in TanhValues(PriceChangeOver5(stockData, idx))}

AnalyzeSentiment(stockData, rng) ==
    AnalyzeSentimentFrom(stockData, rng, 0, << >>)

\* The series analyzeSentiment is tried on: closes 0..MaxClose, parseCSV
\* accepting a close of 0, and one with a change below the tanh's saturation.
SentimentCloses == SeqsUpTo(0..MaxClose, MaxCorrLen) \cup {<<10, 11>>}

SentimentStreams == [1..RngPeriod -> 0..(RandomDen - 1)]

\* sentimentData = analyzeSentiment(stockData)
AnalyzeSentimentCall(stockData, rng) ==
    /\ corrPc = "idle"
    /\ corrSentiment' \in AnalyzeSentiment(stockData, rng)
    /\ corrStock' = stockData
    /\ corrResult' = CorrZero
    /\ corrPc' = "analyzed"
    /\ UNCHANGED <<spanVars, maVars, appVars, aiVars, uiVars, voiceVars>>

\* The caller takes the array.
SentimentTaken ==
    /\ corrPc = "analyzed"
    /\ corrPc' = "idle"
    /\ corrSentiment' = << >>
    /\ corrStock' = << >>
    /\ corrResult' = CorrZero
    /\ UNCHANGED <<spanVars, maVars, appVars, aiVars, uiVars, voiceVars>>

SentimentNext ==
    \/ \E c \in SentimentCloses, rng \in SentimentStreams :
           AnalyzeSentimentCall(SeriesBars(c), rng)
    \/ SentimentTaken

\* ------------------------------------------------- strings
UpperCaseLetters == "ABCDEFGHIJKLMNOPQRSTUVWXYZ"

LowerCaseLetters == "abcdefghijklmnopqrstuvwxyz"

Digits == {"0", "1", "2", "3", "4", "5", "6", "7", "8", "9"}

WhiteSpace == {" ", "\t", "\n", "\r"}

LineTerminators == {"\n", "\r"}

CharAt(s, k) == SubSeq(s, k, k)

LowerChar(c) ==
    IF \E k \in 1..Len(UpperCaseLetters) : CharAt(UpperCaseLetters, k) = c
    THEN CharAt(LowerCaseLetters,
                CHOOSE k \in 1..Len(UpperCaseLetters) :
                    CharAt(UpperCaseLetters, k) = c)
    ELSE c

\* String.prototype.toLowerCase
RECURSIVE ToLowerCase(_)
ToLowerCase(s) ==
    IF Len(s) = 0 THEN ""
    ELSE LowerChar(CharAt(s, 1)) \o ToLowerCase(SubSeq(s, 2, Len(s)))

RECURSIVE TrimStart(_)
TrimStart(s) ==
    IF Len(s) > 0 /\ CharAt(s, 1) \in WhiteSpace
    THEN TrimStart(SubSeq(s, 2, Len(s)))
    ELSE s

RECURSIVE TrimEnd(_)
TrimEnd(s) ==
    IF Len(s) > 0 /\ CharAt(s, Len(s)) \in WhiteSpace
    THEN TrimEnd(SubSeq(s, 1, Len(s) - 1))
    ELSE s

\* String.prototype.trim
Trim(s) == TrimEnd(TrimStart(s))

\* The positions at which w occurs in s.
Occurrences(s, w) ==
    {k \in 1..(Len(s) - Len(w) + 1) : SubSeq(s, k, k + Len(w) - 1) = w}

\* String.prototype.includes
Includes(s, w) == Occurrences(s, w) # {}

\* Array.prototype.join
RECURSIVE Join(_, _)
Join(strs, sep) ==
    IF Len(strs) = 0 THEN ""
    ELSE IF Len(strs) = 1 THEN strs[1]
    ELSE strs[1] \o sep \o Join(Tail(strs), sep)

\* ------------------------------------------------- regular expressions
\* A pattern is a set of alternatives; an alternative is a sequence of groups
\* of literal words joined by ".*", which runs over anything but a line
\* terminator.  (\d+) finds a match exactly where the group Digits does.
DotStar(s, from, to) ==
    \A k \in from..to : CharAt(s, k) \notin LineTerminators

\* The alternative matches s with its k-th group starting at from or later.
RECURSIVE MatchGroups(_, _, _, _)
MatchGroups(s, groups, k, from) ==
    IF k > Len(groups) THEN TRUE
    ELSE \E w \in groups[k] : \E at \in Occurrences(s, w) :
            /\ at >= from
            /\ k > 1 => DotStar(s, from, at - 1)
            /\ MatchGroups(s, groups, k + 1, at + Len(w))

\* String.prototype.match(pattern) is not null
Matches(s, pattern) == \E alt \in pattern : MatchGroups(s, alt, 1, 1)

\* /(\d+)/: the leftmost longest run of digits, "" when there is none.
RECURSIVE DigitRun(_, _)
DigitRun(s, k) ==
    IF k <= Len(s) /\ CharAt(s, k) \in Digits
    THEN CharAt(s, k) \o DigitRun(s, k + 1)
    ELSE ""

FirstDigitRun(s) ==
    LET at == {k \in 1..Len(s) : CharAt(s, k) \in Digits}
    IN  IF at = {} THEN ""
        ELSE DigitRun(s, CHOOSE k \in at : \A j \in at : k <= j)

DigitValue(c) == CHOOSE v \in 0..9 : ToString(v) = c

\* parseInt on a run of digits
RECURSIVE ParseInt(_)
ParseInt(s) ==
    IF Len(s) = 0 THEN 0
    ELSE 10 * ParseInt(SubSeq(s, 1, Len(s) - 1)) + DigitValue(CharAt(s, Len(s)))

\* ------------------------------------------------- Number.prototype.toFixed
\* n / d scaled by powers of two until d <= n < 2d.
RECURSIVE Normalize(_, _)
Normalize(n, d) ==
    IF n < d THEN Normalize(2 * n, d)
    ELSE IF n >= 2 * d THEN Normalize(n, 2 * d)
    ELSE [n |-> n, d |-> d]

\* The long division of a double: what is left after the given number of
\* further quotient bits, and the last bit.
RECURSIVE QuotientBits(_, _, _, _)
QuotientBits(r, d, bits, lastBit) ==
    IF bits = 0 THEN [r |-> r, lastBit |-> lastBit]
    ELSE IF 2 * r >= d THEN QuotientBits(2 * r - d, d, bits - 1, 1)
    ELSE QuotientBits(2 * r, d, bits - 1, 0)

\* The double n / d (n, d > 0) is not below the quotient n / d: the division
\* is exact or rounds up (to nearest, ties to even, 53 significant bits).
DoubleNotBelow(n, d) ==
    LET nd == Normalize(n, d)
        q  == QuotientBits(nd.n - nd.d, nd.d, 52, 1)
    IN  \/ q.r = 0
        \/ 2 * q.r > nd.d
        \/ 2 * q.r = nd.d /\ q.lastBit = 1

TwoDigits(v) == IF v < 10 THEN "0" \o ToString(v) ELSE ToString(v)

\* x.toFixed(2) of the double x = num / den: the nearest multiple of 0.01 to
\* the double, the larger one when two are as near.
ToFixed2(x) ==
    LET n     == Abs(x.num)
        whole == (100 * n) \div x.den
        rest  == (100 * n) % x.den
        up    == \/ 2 * rest > x.den
                 \/ 2 * rest = x.den /\ DoubleNotBelow(n, x.den)
        cents == IF up THEN whole + 1 ELSE whole
    IN  (IF x.num < 0 THEN "-" ELSE "")
            \o ToString(cents \div 100) \o "." \o TwoDigits(cents % 100)

\* ------------------------------------------------- ConversationalAI
\* A value a handler hands back: a string, undefined, or an exception thrown.
Str(text) == [type |-> "string", text |-> text]

UndefinedValue == [type |-> "undefined", text |-> ""]

TypeError == [type |-> "throw", text |-> "TypeError"]

\* The emoji of the answers, by code point.
ChartIncreasing == "U+1F4C8"

ChartDecreasing == "U+1F4C9"

Rocket == "U+1F680"

LeftRightArrow == "U+2194"

BarChart == "U+1F4CA"

\* A date string of the series.
DateText(d) == "2024-01-" \o TwoDigits(d)

Num(v) == Quot(v, 1)

\* x >= 0 for the double x
NonNegative(x) == IF x.den = 0 THEN x.num > 0 ELSE x.num >= 0

\* x.toFixed(2), of a NaN or an infinite double too
FixedText(x) ==
    IF x.den # 0 THEN ToFixed2(x)
    ELSE IF x.num = 0 THEN "NaN"
    ELSE IF x.num > 0 THEN "Infinity" ELSE "-Infinity"

\* The record has the field ma<size>.
HasMA(rec, size) == size \in DOMAIN rec.ma

\* latest.ma<size> is truthy: present, not 0 and not NaN.
TruthyMA(rec, size) ==
    HasMA(rec, size) /\ rec.ma[size].num # 0 /\ rec.ma[size].den # 0

\* latest.ma<size>?.toFixed(2) || 'N/A'
FixedOrNA(rec, size) ==
    IF HasMA(rec, size) THEN FixedText(rec.ma[size]) ELSE "N/A"

\* The guard with the early return dropped.
NeverEmpty(ai) == FALSE

\* this.movingAverages.length === 0
MovingAveragesEmpty(ai) == Len(ai.movingAverages) = 0

HandleMovingAverageQuery(ai, query) ==
    IF MovingAveragesEmpty(ai)
    THEN Str("I don't have any stock data loaded yet. Please upload some data first.")
    ELSE IF Len(ai.movingAverages) = 0
    THEN TypeError    \* latest is undefined and latest.ma5 throws
    ELSE
    LET latest   == Last(ai.movingAverages)
        dayMatch == FirstDigitRun(query)
        days     == IF dayMatch # "" THEN ParseInt(dayMatch) ELSE 10
    IN  IF days = 5 /\ TruthyMA(latest, 5)
        THEN Str("The 5-day moving average is $" \o FixedText(latest.ma[5]) \o ".")
        ELSE IF days = 10 /\ TruthyMA(latest, 10)
        THEN Str("The 10-day moving average is $" \o FixedText(latest.ma[10]) \o ".")
        ELSE IF days = 20 /\ TruthyMA(latest, 20)
        THEN Str("The 20-day moving average is $" \o FixedText(latest.ma[20]) \o ".")
        ELSE Str("I have moving averages for 5, 10, and 20 days. The latest values are: 5-day: $"
                 \o FixedOrNA(latest, 5) \o ", 10-day: $" \o FixedOrNA(latest, 10)
                 \o ", 20-day: $" \o FixedOrNA(latest, 20) \o ".")

\* The note with the strong trend starting at a span of 10.
SpanInterpretationFromTen(span) ==
    IF span >= 10 THEN " This indicates a strong bullish trend!"
    ELSE IF span > 5 THEN " This shows moderate bullish momentum."
    ELSE IF span <= 2 THEN " This suggests bearish pressure or consolidation."
    ELSE " This indicates neutral market sentiment."

\* The note of handleCurrentSpanQuery.
SpanInterpretation(span) ==
    IF span > 10 THEN " This indicates a strong bullish trend!"
    ELSE IF span > 5 THEN " This shows moderate bullish momentum."
    ELSE IF span <= 2 THEN " This suggests bearish pressure or consolidation."
    ELSE " This indicates neutral market sentiment."

\* latest.span || 0: a record without a span carries span 0.
HandleCurrentSpanQuery(ai) ==
    IF Len(ai.stockData) = 0
    THEN Str("No stock data available. Please upload data to see span analysis.")
    ELSE LET span == Last(ai.stockData).span
         IN  Str("The current stock span is " \o ToString(span) \o " days."
                 \o SpanInterpretation(span))

\* changePercent of handlePriceQuery: from the second-to-last close to the
\* last one.
PriceQueryChangePercent(stockData) ==
    LET n        == Len(stockData)
        latest   == stockData[n]
        previous == stockData[n - 1]
        change   == latest.close - previous.close
    IN  Quot(100 * change, previous.close)

\* priceChangePercent of StockChart: previous is stockData[length - 2].
ChartPriceChangePercent(stockData) ==
    LET n        == Len(stockData)
        latest   == stockData[n]
        previous == stockData[n - 1]
        priceChange == latest.close - previous.close
    IN  IF n > 1 THEN Quot(100 * priceChange, previous.close) ELSE Quot(0, 1)

\* priceChange of AnalysisResults: previous is stockData[length - 1], the
\* latest record again.
AnalysisPriceChange(stockData) ==
    LET n        == Len(stockData)
        latest   == stockData[n]
        previous == stockData[n]
    IN  IF n > 1
        THEN Quot(100 * (latest.close - previous.close), previous.close)
        ELSE Quot(0, 1)

HandlePriceQuery(ai) ==
    IF Len(ai.stockData) = 0
    THEN Str("No stock data available. Please upload data to see current price.")
    ELSE
    LET n        == Len(ai.stockData)
        latest   == ai.stockData[n]
        previous == ai.stockData[n - 1]
        change   == latest.close - previous.close
        changePercent == PriceQueryChangePercent(ai.stockData)
        direction == IF change >= 0 THEN ChartIncreasing ELSE ChartDecreasing
        changeText ==
            IF n > 1
            THEN " " \o direction \o " " \o (IF change >= 0 THEN "+" ELSE "")
                 \o "$" \o FixedText(Num(change)) \o " ("
                 \o (IF NonNegative(changePercent) THEN "+" ELSE "")
                 \o FixedText(changePercent) \o "%)"
            ELSE ""
    IN  Str("The current price is $" \o FixedText(Num(latest.close)) \o "."
            \o changeText)

\* The label with the thresholds at two days.
TrendOfTwoDays(upDays, downDays) ==
    IF upDays >= 2 THEN "bullish uptrend"
    ELSE IF downDays >= 2 THEN "bearish downtrend"
    ELSE "sideways consolidation"

\* The trend of handleTrendQuery from the counts of up and down days.
TrendOf(upDays, downDays) ==
    IF upDays >= 3 THEN "bullish uptrend"
    ELSE IF downDays >= 3 THEN "bearish downtrend"
    ELSE "sideways consolidation"

\* The guard with the threshold at four records.
TrendNeedsMoreDataBelowFour(ai) == Len(ai.stockData) < 4

\* this.stockData.length < 5
TrendNeedsMoreData(ai) == Len(ai.stockData) < 5

\* recent = this.stockData.slice(-5): the last five records, or all of fewer.
HandleTrendQuery(ai) ==
    IF TrendNeedsMoreData(ai)
    THEN Str("I need more data to analyze the trend. Please provide at least 5 days of data.")
    ELSE IF Len(ai.stockData) = 0
    THEN TypeError    \* latest is undefined and latest.span throws
    ELSE
    LET n        == Len(ai.stockData)
        recent   == SubSeq(ai.stockData, Max2(1, n - 4), n)
        priceChanges == [k \in 1..(Len(recent) - 1) |->
                            recent[k + 1].close - recent[k].close]
        upDays   == Cardinality({k \in DOMAIN priceChanges : priceChanges[k] > 0})
        downDays == Cardinality({k \in DOMAIN priceChanges : priceChanges[k] < 0})
        trend    == TrendOf(upDays, downDays)
        emoji    == IF upDays >= 3 THEN Rocket
                    ELSE IF downDays >= 3 THEN ChartDecreasing
                    ELSE LeftRightArrow
        spanTrend == IF ai.stockData[n].span > 5 THEN "strong momentum"
                     ELSE "weak momentum"
    IN  Str(emoji \o " The stock is showing a " \o trend \o " with "
            \o spanTrend \o " based on the recent 5-day pattern.")

\* The price signals alone.
SignalsWithoutSpan(latest, latestMA) ==
    LET ma10 == IF TruthyMA(latestMA, 10) THEN latestMA.ma[10] ELSE Num(0)
    IN  (IF latest.close * ma10.den > ma10.num
         THEN <<"Price above 10-day MA (Bullish)">> ELSE << >>)
        \o (IF latest.close * ma10.den < ma10.num
            THEN <<"Price below 10-day MA (Bearish)">> ELSE << >>)

\* The signals of handleRecommendationQuery, in the order they are pushed.
Signals(latest, latestMA) ==
    LET ma10 == IF TruthyMA(latestMA, 10) THEN latestMA.ma[10] ELSE Num(0)
        span == latest.span
    IN  (IF latest.close * ma10.den > ma10.num
         THEN <<"Price above 10-day MA (Bullish)">> ELSE << >>)
        \o (IF latest.close * ma10.den < ma10.num
            THEN <<"Price below 10-day MA (Bearish)">> ELSE << >>)
        \o (IF span > 7
            THEN <<"High span indicates strong momentum (Bullish)">> ELSE << >>)
        \o (IF span <= 2
            THEN <<"Low span indicates weak momentum (Bearish)">> ELSE << >>)

HandleRecommendationQuery(ai) ==
    IF Len(ai.stockData) = 0 \/ Len(ai.movingAverages) = 0
    THEN Str("I need stock data to provide recommendations. Please upload data first.")
    ELSE
    LET signals == Signals(Last(ai.stockData), Last(ai.movingAverages))
        bullishSignals ==
            Cardinality({k \in 1..Len(signals) : Includes(signals[k], "Bullish")})
        bearishSignals ==
            Cardinality({k \in 1..Len(signals) : Includes(signals[k], "Bearish")})
        recommendation == IF bullishSignals > bearishSignals THEN "BUY"
                          ELSE IF bearishSignals > bullishSignals THEN "SELL"
                          ELSE "HOLD"
        reasoning ==
            IF bullishSignals > bearishSignals
            THEN "Multiple bullish indicators align for a potential buying opportunity."
            ELSE IF bearishSignals > bullishSignals
            THEN "Bearish signals suggest considering a sell position."
            ELSE "Mixed signals suggest holding current position."
    IN  Str(BarChart \o " **" \o recommendation \o "** - " \o reasoning
            \o "\n\nSignals: " \o Join(signals, ", "))

\* The high reported with the date of the last record that attains it.
HandleHighQueryLastDay(ai) ==
    IF Len(ai.stockData) = 0
    THEN Str("No data available to find highest price.")
    ELSE
    LET sd == ai.stockData
        highestPrice == CHOOSE h \in {sd[k].high : k \in 1..Len(sd)} :
                            \A k \in 1..Len(sd) : sd[k].high <= h
        at == {k \in 1..Len(sd) : sd[k].high = highestPrice}
        highestDay == sd[CHOOSE k \in at : \A j \in at : k >= j]
    IN  Str("The highest price was $" \o FixedText(Num(highestPrice)) \o " on "
            \o DateText(highestDay.date) \o ".")

HandleHighQuery(ai) ==
    IF Len(ai.stockData) = 0
    THEN Str("No data available to find highest price.")
    ELSE
    LET sd == ai.stockData
        highestPrice == CHOOSE h \in {sd[k].high : k \in 1..Len(sd)} :
                            \A k \in 1..Len(sd) : sd[k].high <= h
        at == {k \in 1..Len(sd) : sd[k].high = highestPrice}
        highestDay == sd[CHOOSE k \in at : \A j \in at : k <= j]
    IN  Str("The highest price was $" \o FixedText(Num(highestPrice)) \o " on "
            \o DateText(highestDay.date) \o ".")

HandleLowQuery(ai) ==
    IF Len(ai.stockData) = 0
    THEN Str("No data available to find lowest price.")
    ELSE
    LET sd == ai.stockData
        lowestPrice == CHOOSE l \in {sd[k].low : k \in 1..Len(sd)} :
                           \A k \in 1..Len(sd) : sd[k].low >= l
        at == {k \in 1..Len(sd) : sd[k].low = lowestPrice}
        lowestDay == sd[CHOOSE k \in at : \A j \in at : k <= j]
    IN  Str("The lowest price was $" \o FixedText(Num(lowestPrice)) \o " on "
            \o DateText(lowestDay.date) \o ".")

DefaultResponses ==
    <<"I can help you analyze stock data! Try asking about moving averages, current prices, trends, or recommendations.",
      "Ask me about stock spans, price movements, or technical analysis. I'm here to help!",
      "I can provide insights on trends, moving averages, and trading recommendations. What would you like to know?">>

\* The response picked with an index counted from 1.
GetDefaultResponseFromOne(draw) ==
    LET index == (draw * Len(DefaultResponses)) \div DrawDen + 1
    IN  IF index + 1 \in 1..Len(DefaultResponses)
        THEN Str(DefaultResponses[index + 1])
        ELSE UndefinedValue

\* responses[Math.floor(Math.random() * responses.length)], Math.random()
\* being draw / DrawDen.
GetDefaultResponse(draw) ==
    LET index == (draw * Len(DefaultResponses)) \div DrawDen
    IN  IF index + 1 \in 1..Len(DefaultResponses)
        THEN Str(DefaultResponses[index + 1])
        ELSE UndefinedValue

\* The patterns of processQuery with their handlers, in the order tried.
patterns ==
    <<[pattern |-> {<<{"what", "what'", "whats", "what's", "tell me", "show me"},
                      {"average", "ma", "moving average"},
                      Digits>>},
       handler |-> "handleMovingAverageQuery"],
      [pattern |-> {<<{"span", "stock span"}, {"today"}>>,
                    <<{"current"}, {"span"}>>},
       handler |-> "handleCurrentSpanQuery"],
      [pattern |-> {<<{"price", "current price", "latest price"}>>},
       handler |-> "handlePriceQuery"],
      [pattern |-> {<<{"trend", "trending", "direction"}>>},
       handler |-> "handleTrendQuery"],
      [pattern |-> {<<{"buy", "sell", "hold", "recommend"}>>},
       handler |-> "handleRecommendationQuery"],
      [pattern |-> {<<{"high", "highest", "peak"}>>},
       handler |-> "handleHighQuery"],
      [pattern |-> {<<{"low", "lowest", "bottom"}>>},
       handler |-> "handleLowQuery"]>>

\* The last pattern from position k on that matches, 0 when none does.
RECURSIVE LastMatch(_, _)
LastMatch(q, k) ==
    IF k > Len(patterns) THEN 0
    ELSE IF LastMatch(q, k + 1) # 0 THEN LastMatch(q, k + 1)
    ELSE IF Matches(q, patterns[k].pattern) THEN k
    ELSE 0

\* for (const { pattern, handler } of patterns): the first pattern from
\* position k on that matches, 0 when none does.
RECURSIVE FirstMatch(_, _)
FirstMatch(q, k) ==
    IF k > Len(patterns) THEN 0
    ELSE IF Matches(q, patterns[k].pattern) THEN k
    ELSE FirstMatch(q, k + 1)

\* The dispatch with the recommendation handler bound to the trend's.
HandleTrendForRecommendation(handler, ai, q) ==
    CASE handler = "handleMovingAverageQuery" -> HandleMovingAverageQuery(ai, q)
      [] handler = "handleCurrentSpanQuery" -> HandleCurrentSpanQuery(ai)
      [] handler = "handlePriceQuery" -> HandlePriceQuery(ai)
      [] handler = "handleTrendQuery" -> HandleTrendQuery(ai)
      [] handler = "handleRecommendationQuery" -> HandleTrendQuery(ai)
      [] handler = "handleHighQuery" -> HandleHighQuery(ai)
      [] handler = "handleLowQuery" -> HandleLowQuery(ai)

\* handler(normalizedQuery, match)
Handle(handler, ai, q) ==
    CASE handler = "handleMovingAverageQuery" -> HandleMovingAverageQuery(ai, q)
      [] handler = "handleCurrentSpanQuery" -> HandleCurrentSpanQuery(ai)
      [] handler = "handlePriceQuery" -> HandlePriceQuery(ai)
      [] handler = "handleTrendQuery" -> HandleTrendQuery(ai)
      [] handler = "handleRecommendationQuery" -> HandleRecommendationQuery(ai)
      [] handler = "handleHighQuery" -> HandleHighQuery(ai)
      [] handler = "handleLowQuery" -> HandleLowQuery(ai)

\* query.toLowerCase().trim()
NormalizedQuery(query) == Trim(ToLowerCase(query))

\* What processQuery settles with, and the handler that ran.
ProcessQueryResult(ai, query, draw) ==
    LET normalizedQuery == NormalizedQuery(query)
        k == FirstMatch(normalizedQuery, 1)
    IN  IF k # 0
        THEN [handler |-> patterns[k].handler,
              value |-> Handle(patterns[k].handler, ai, normalizedQuery)]
        ELSE [handler |-> "getDefaultResponse",
              value |-> GetDefaultResponse(draw)]

\* The instance's fields.
AI == [stockData |-> aiStockData, movingAverages |-> aiMovingAverages]

\* Assigning the series only.
UpdateDataSeriesOnly(stockData, movingAverages) ==
    /\ aiStockData' = stockData
    /\ UNCHANGED aiMovingAverages

\* updateData
UpdateData(stockData, movingAverages) ==
    /\ aiStockData' = stockData
    /\ aiMovingAverages' = movingAverages

NoAnswer == [type |-> "none", text |-> ""]

NoReads == [stockData |-> << >>, movingAverages |-> << >>]

\* A call of updateData on the instance.
CallUpdateData(ctx) ==
    /\ aiPc = "ready"
    /\ UpdateData(ctx.stockData, ctx.movingAverages)
    /\ UNCHANGED <<aiPc, lastQuery, lastAnswer, lastHandler, lastReads>>
    /\ UNCHANGED <<spanVars, maVars, corrVars, appVars, uiVars, voiceVars>>

\* processQuery: it has no await, so it runs to its return in one step.
CallProcessQuery(query, draw) ==
    /\ aiPc = "ready"
    /\ LET r == ProcessQueryResult(AI, query, draw)
       IN  /\ lastAnswer' = r.value
           /\ lastHandler' = r.handler
    /\ lastQuery' = query
    /\ lastReads' = AI
    /\ aiPc' = "answered"
    /\ UNCHANGED <<aiStockData, aiMovingAverages>>

ProcessQuery(query, draw) ==
    /\ CallProcessQuery(query, draw)
    /\ UNCHANGED <<spanVars, maVars, corrVars, appVars, uiVars, voiceVars>>

\* The caller resumes with the settled promise.
AnswerTaken ==
    /\ aiPc = "answered"
    /\ aiPc' = "ready"
    /\ lastQuery' = ""
    /\ lastAnswer' = NoAnswer
    /\ lastHandler' = ""
    /\ lastReads' = NoReads
    /\ UNCHANGED <<aiStockData, aiMovingAverages>>
    /\ UNCHANGED <<spanVars, maVars, corrVars, appVars, uiVars, voiceVars>>

AIInit ==
    /\ aiStockData = << >>
    /\ aiMovingAverages = << >>
    /\ aiPc = "ready"
    /\ lastQuery = ""
    /\ lastAnswer = NoAnswer
    /\ lastHandler = ""
    /\ lastReads = NoReads

\* The queries put to processQuery: phrases of up to MaxQueryWords words.
QueryWords ==
    {"what's", "show me", "average", "ma", "10", "5", "span", "today",
     "current", "price", "trend", "buy", "high", "low", "xyz"}

RECURSIVE Phrases(_)
Phrases(n) ==
    IF n = 0 THEN {""}
    ELSE LET shorter == Phrases(n - 1)
         IN  shorter \cup QueryWords
                 \cup {p \o " " \o w : p \in shorter \ {""}, w \in QueryWords}

ExampleQueries ==
    {"what's the 10 day average", "What's the 20 day MA?", "  Tell me the MA 5 ",
     "should I buy or sell", "Current PRICE trend", "   ", "asdf\nqwer",
     "what's the average\n10", "show me the moving average over 12 days",
     "show me ma 10"}

Queries == Phrases(MaxQueryWords) \cup ExampleQueries

\* The series the contexts are computed from, as closes.
ContextCloses ==
    {<<2>>, <<1, 2>>, <<3, 2, 1>>, <<1, 2, 3, 4, 5, 6>>, <<5, 4, 3, 2, 1>>,
     <<2, 2, 3, 2, 2, 3, 1, 3>>}

ContextOf(closes) ==
    [stockData |-> CalculateSpanForStockData(SeriesBars(closes)),
     movingAverages |->
         CalculateMovingAverages(DefaultWindowSizes, SeriesBars(closes))]

\* A context whose latest 10-day average is 123.45.
ExampleContext ==
    [stockData |-> CalculateSpanForStockData(SeriesBars(<<123, 124>>)),
     movingAverages |->
         <<[date |-> 1, ma |-> (5 :> Num(123)) @@ (10 :> Num(123))
                                 @@ (20 :> Num(123))],
           [date |-> 2, ma |-> (5 :> Quot(1247, 10)) @@ (10 :> Quot(12345, 100))
                                 @@ (20 :> Quot(2465, 20))]>>]

EmptyContext == [stockData |-> << >>, movingAverages |-> << >>]

\* The contexts handed to updateData: computed ones, the empty one, and ones
\* with only the series or only the averages.
Contexts ==
    {ContextOf(c) : c \in ContextCloses}
        \cup {ExampleContext, EmptyContext}
        \cup {[ExampleContext EXCEPT !.movingAverages = << >>],
              [ExampleContext EXCEPT !.stockData = << >>]}

QueryNext ==
    \/ \E ctx \in Contexts : CallUpdateData(ctx)
    \/ \E query \in Queries, draw \in 0..(DrawDen - 1) : ProcessQuery(query, draw)
    \/ AnswerTaken

\* ------------------------------------------------- the handlers' contexts
Repeat(v, n) == [k \in 1..n |-> v]

\* Lengths of the enumerated series: none, one, below and at the five
\* records the trend needs.
TrendLengths == {0, 1, 4, 5}

TrendCloses == UNION {[1..n -> 1..MaxCtxClose] : n \in TrendLengths}

\* Series that end in a run: up to two high closes, a run of closes of 1,
\* and the latest closes.
PeakCloses == {3, 20}

RunTails == {<<1>>, <<2>>, <<2, 3, 4>>, <<3, 2, 1>>}

RunCloses ==
    {Repeat(h, k) \o Repeat(1, m) \o tail :
        h \in PeakCloses, k \in 0..2, m \in 0..MaxRun, tail \in RunTails}

\* A series that closed at 0 twice.
ZeroCloses == <<0, 0>>

HandlerContexts ==
    {ContextOf(c) : c \in TrendCloses \cup RunCloses \cup {ZeroCloses}}
        \cup {[ExampleContext EXCEPT !.movingAverages = << >>],
              [ExampleContext EXCEPT !.stockData = << >>]}

\* One query or more for each handler.
HandlerQueries ==
    {"what is the current span", "latest price", "trend",
     "should I buy or sell", "highest", "lowest", "show me ma 5",
     "show me ma 10", "show me ma 20", "show me ma 12",
     "tell me 5 averages of 20", "hello"}

\* new ConversationalAI(): the instance in use is replaced by a new one.
NewConversationalAI ==
    /\ aiPc = "ready"
    /\ AI # EmptyContext
    /\ aiStockData' = << >>
    /\ aiMovingAverages' = << >>
    /\ UNCHANGED <<aiPc, lastQuery, lastAnswer, lastHandler, lastReads>>
    /\ UNCHANGED <<spanVars, maVars, corrVars, appVars, uiVars, voiceVars>>

\* The first updateData of an instance.
FirstUpdateData(ctx) ==
    /\ AI = EmptyContext
    /\ CallUpdateData(ctx)

HandlersNext ==
    \/ NewConversationalAI
    \/ \E ctx \in HandlerContexts : FirstUpdateData(ctx)
    \/ \E query \in HandlerQueries, draw \in 0..(DrawDen - 1) :
           ProcessQuery(query, draw)
    \/ AnswerTaken

\* ------------------------------------------------- App
NoResult ==
    [id |-> 0, stockData |-> << >>, movingAverages |-> << >>,
     sentimentData |-> << >>, correlationScore |-> CorrZero]

NonDecreasing(s) == \A k \in 1..(Len(s) - 1) : s[k] <= s[k + 1]

\* The series handed to processStockData: dated in ascending order.
LoadSeries ==
    UNION {{[k \in 1..n |-> Bar(d[k], c[k])] :
               d \in {x \in [1..n -> 1..MaxDate] : NonDecreasing(x)},
               c \in [1..n -> 1..MaxClose]} : n \in 0..MaxLoadLen}

RandomStreams == [1..RngPeriod -> 0..(RandomDen - 1)]

\* The AnalysisResult assembled from the series and the sentiment samples.
AssembleResult(stockData, sentimentData, id) ==
    LET stockDataWithSpan == CalculateSpanForStockData(stockData)
    IN  [id |-> id,
         stockData |-> stockDataWithSpan,
         movingAverages |-> CalculateMovingAverages(DefaultWindowSizes, stockData),
         sentimentData |-> sentimentData,
         correlationScore |->
             CalculateSentimentSpanCorrelation(sentimentData, stockDataWithSpan)]

\* The props App hands to ConversationalInterface:
\* analysisResult?.stockData || [], analysisResult?.movingAverages || [].
PropsOf(r) == [stockData |-> r.stockData, movingAverages |-> r.movingAverages]

\* processStockData up to setAnalysisResult(result).  Outside a React event
\* handler the new state may be rendered at once: a mounted chat then gets
\* the new props and its effect is scheduled.
ProcessStockData(stockData, rng) ==
    /\ appPc = "idle"
    /\ aiPc = "ready"
    /\ analysisResult.id < MaxLoads
    /\ \E sentimentData \in AnalyzeSentiment(stockData, rng) :
           analysisResult' =
               AssembleResult(stockData, sentimentData, analysisResult.id + 1)
    /\ loadInput' = stockData
    /\ isProcessing' = TRUE
    /\ appPc' = "setActiveTab"
    /\ \E rendered \in BOOLEAN :
           /\ chatProps' = IF activeTab = "chat" /\ rendered
                           THEN PropsOf(analysisResult') ELSE chatProps
           /\ effectPending' = IF activeTab = "chat" /\ rendered
                               THEN TRUE ELSE effectPending
    /\ UNCHANGED activeTab
    /\ UNCHANGED <<spanVars, maVars, corrVars, aiVars, voiceVars>>

\* The tab becomes tab: a chat that appears is mounted with a new
\* ConversationalAI and its effect scheduled; a chat that disappears is
\* unmounted, its instance and its pending effect dropped.
SwitchTab(tab) ==
    /\ activeTab' = tab
    /\ IF tab = "chat" /\ activeTab # "chat"
       THEN /\ aiStockData' = << >>
            /\ aiMovingAverages' = << >>
            /\ chatProps' = PropsOf(analysisResult)
            /\ effectPending' = TRUE
       ELSE IF tab # "chat" /\ activeTab = "chat"
       THEN /\ aiStockData' = << >>
            /\ aiMovingAverages' = << >>
            /\ chatProps' = EmptyContext
            /\ effectPending' = FALSE
       ELSE UNCHANGED <<aiStockData, aiMovingAverages, chatProps, effectPending>>

\* setActiveTab('chart') and, in the finally, setIsProcessing(false).
ProcessStockDataFinish ==
    /\ appPc = "setActiveTab"
    /\ SwitchTab("chart")
    /\ isProcessing' = FALSE
    /\ appPc' = "idle"
    /\ UNCHANGED <<analysisResult, loadInput, pendingUploads, csvText, error>>
    /\ UNCHANGED <<aiPc, lastQuery, lastAnswer, lastHandler, lastReads>>
    /\ UNCHANGED <<spanVars, maVars, corrVars, voiceVars>>

\* A call of processStockData.
OnDataLoad(stockData, rng) ==
    /\ ProcessStockData(stockData, rng)
    /\ UNCHANGED <<pendingUploads, csvText, error>>

\* onClick={() => setActiveTab(tab.id)}
SetActiveTab(tab) ==
    /\ appPc = "idle"
    /\ aiPc = "ready"
    /\ tab # activeTab
    /\ SwitchTab(tab)
    /\ UNCHANGED <<analysisResult, isProcessing, loadInput, appPc>>
    /\ UNCHANGED <<pendingUploads, csvText, error>>
    /\ UNCHANGED <<aiPc, lastQuery, lastAnswer, lastHandler, lastReads>>
    /\ UNCHANGED <<spanVars, maVars, corrVars, voiceVars>>

\* ------------------------------------------------- DataUploader
\* A CSV text is kept as whether its header names the required columns and
\* its data lines; a line as the number of its values, its date (a day
\* number, 0 for a cell new Date() cannot read, as "2024-01-00") and the cells
\* of open, high, low and close.  The header has no volume column.
NoFile == [columns |-> TRUE, rows |-> << >>]

NoError == ""

\* parseFloat of a cell without sign or point: the value of its leading
\* digits after leading white space, NaN when there is none.
ParseFloat(cell) ==
    LET run == DigitRun(TrimStart(cell), 1)
    IN  IF run = "" THEN [nan |-> TRUE, value |-> 0]
        ELSE [nan |-> FALSE, value |-> ParseInt(run)]

\* The row is pushed: it has the five values and none of open, high, low and
\* close is NaN.
RowKept(row) ==
    /\ row.values >= 5
    /\ ~ParseFloat(row.open).nan
    /\ ~ParseFloat(row.high).nan
    /\ ~ParseFloat(row.low).nan
    /\ ~ParseFloat(row.close).nan

\* The StockData of a row.
RowData(row) ==
    [date |-> row.date, open |-> ParseFloat(row.open).value,
     high |-> ParseFloat(row.high).value, low |-> ParseFloat(row.low).value,
     close |-> ParseFloat(row.close).value, volume |-> 1000000]

\* The rows pushed to data, in the order of the lines.
RECURSIVE KeptRows(_)
KeptRows(rows) ==
    IF Len(rows) = 0 THEN << >>
    ELSE IF RowKept(Head(rows)) THEN <<RowData(Head(rows))>> \o KeptRows(Tail(rows))
    ELSE KeptRows(Tail(rows))

\* new Date(date).getTime() is a number
IsDate(d) == d >= 1

\* The comparator of the sort: a NaN difference counts as 0.
CompareDates(a, b) ==
    IF IsDate(a.date) /\ IsDate(b.date) THEN a.date - b.date ELSE 0

\* The comparator orders the rows consistently: no unreadable date next to
\* two different readable ones.
ConsistentComparator(data) ==
    \/ \A k \in 1..Len(data) : IsDate(data[k].date)
    \/ \A k, l \in 1..Len(data) :
           IsDate(data[k].date) /\ IsDate(data[l].date) =>
               data[k].date = data[l].date

\* x inserted after the last element of the sorted s not greater than it.
RECURSIVE InsertSorted(_, _)
InsertSorted(s, x) ==
    IF Len(s) = 0 THEN <<x>>
    ELSE IF CompareDates(Last(s), x) <= 0 THEN Append(s, x)
    ELSE Append(InsertSorted(ButLast(s), x), Last(s))

\* The stable sort by the comparator.
RECURSIVE StableSort(_)
StableSort(data) ==
    IF Len(data) = 0 THEN << >>
    ELSE InsertSorted(StableSort(ButLast(data)), Last(data))

Reorderings(data) ==
    {[k \in 1..Len(data) |-> data[p[k]]] :
        p \in {q \in [1..Len(data) -> 1..Len(data)] : Injective(q)}}

\* data.sort((a, b) => new Date(a.date).getTime() - new Date(b.date).getTime()):
\* the stable sort, and any order where the comparator is not consistent.
SortOutcomes(data) ==
    IF ConsistentComparator(data) THEN {StableSort(data)}
    ELSE Reorderings(data)

\* What parseCSV can do with a text: throw an Error with a message, or return
\* data.
ParseCSV(file) ==
    IF Len(file.rows) = 0
    THEN {[error |-> "CSV file must contain header and at least one data row",
           data |-> << >>]}
    ELSE IF ~file.columns
    THEN {[error |-> "Missing required columns", data |-> << >>]}
    ELSE IF Len(KeptRows(file.rows)) = 0
    THEN {[error |-> "No valid data rows found in CSV file", data |-> << >>]}
    ELSE {[error |-> NoError, data |-> d] : d \in SortOutcomes(KeptRows(file.rows))}

\* handleFileUpload up to await file.text(), setError(null)
HandleFileUpload ==
    /\ appPc = "idle"
    /\ aiPc = "ready"
    /\ activeTab = "upload"
    /\ pendingUploads + analysisResult.id < MaxLoads
    /\ pendingUploads' = pendingUploads + 1
    /\ csvText' = NoFile
    /\ error' = NoError
    /\ UNCHANGED <<chatProps, effectPending>>
    /\ UNCHANGED <<spanVars, maVars, corrVars, appVars, aiVars, voiceVars>>

\* handleFileUpload resumes: parseCSV returns the series, onDataLoad(data).
FileLoaded(file, rng) ==
    /\ pendingUploads > 0
    /\ pendingUploads' = pendingUploads - 1
    /\ csvText' = file
    /\ \E out \in ParseCSV(file) :
           /\ out.error = NoError
           /\ ProcessStockData(out.data, rng)
    /\ UNCHANGED error

\* handleFileUpload resumes: parseCSV throws, setError(err.message).
FileRejected(file) ==
    /\ appPc = "idle"
    /\ aiPc = "ready"
    /\ pendingUploads > 0
    /\ pendingUploads' = pendingUploads - 1
    /\ csvText' = file
    /\ \E out \in ParseCSV(file) :
           /\ out.error # NoError
           /\ error' = out.error
    /\ UNCHANGED <<chatProps, effectPending>>
    /\ UNCHANGED <<spanVars, maVars, corrVars, appVars, aiVars, voiceVars>>

\* handleGenerateSampleData: setError(null), onDataLoad(sampleData)
HandleGenerateSampleData(stockData, rng) ==
    /\ activeTab = "upload"
    /\ Len(stockData) > 0
    /\ ProcessStockData(stockData, rng)
    /\ error' = NoError
    /\ UNCHANGED <<pendingUploads, csvText>>

\* useEffect(() => conversationalAI.current.updateData(stockData,
\* movingAverages), [stockData, movingAverages])
RunEffect ==
    /\ effectPending
    /\ effectPending' = FALSE
    /\ UpdateData(chatProps.stockData, chatProps.movingAverages)
    /\ UNCHANGED <<chatProps, pendingUploads, csvText, error>>
    /\ UNCHANGED <<aiPc, lastQuery, lastAnswer, lastHandler, lastReads>>
    /\ UNCHANGED <<spanVars, maVars, corrVars, appVars, voiceVars>>

\* handleSendMessage up to the settled processQuery
HandleSendMessage(text, draw) ==
    /\ activeTab = "chat"
    /\ appPc = "idle"
    /\ Len(Trim(text)) > 0
    /\ ProcessQuery(text, draw)

AppInit ==
    /\ analysisResult = NoResult
    /\ activeTab = "upload"
    /\ isProcessing = FALSE
    /\ loadInput = << >>
    /\ appPc = "idle"

PipelineNext ==
    \/ \E sd \in LoadSeries, rng \in RandomStreams : OnDataLoad(sd, rng)
    \/ ProcessStockDataFinish

\* The series loaded in a session, as closes, and the random streams.
AppCloses == {<<1, 2>>, <<2, 1, 2>>}

\* The line of a CSV text that parses to the record.
RowOf(bar) ==
    [values |-> 5, date |-> bar.date, open |-> ToString(bar.open),
     high |-> ToString(bar.high), low |-> ToString(bar.low),
     close |-> ToString(bar.close)]

\* The CSV text of a series.
FileOf(stockData) ==
    [columns |-> TRUE, rows |-> [k \in 1..Len(stockData) |-> RowOf(stockData[k])]]

\* The files uploaded in a session: the series and a text of a header alone.
AppFiles == {FileOf(SeriesBars(c)) : c \in AppCloses} \cup {NoFile}

AppStreams ==
    {[k \in 1..RngPeriod |-> 0], [k \in 1..RngPeriod |-> RandomDen - 1]}

AppQueries ==
    {"Current price?", "should I buy or sell", "show me ma 10", "hello", " "}

Tabs == {"upload", "chart", "analysis", "chat"}

AppNext ==
    \/ \E tab \in Tabs : SetActiveTab(tab)
    \/ HandleFileUpload
    \/ \E f \in AppFiles, rng \in AppStreams : FileLoaded(f, rng)
    \/ \E f \in AppFiles : FileRejected(f)
    \/ \E c \in AppCloses, rng \in AppStreams :
           HandleGenerateSampleData(SeriesBars(c), rng)
    \/ ProcessStockDataFinish
    \/ RunEffect
    \/ \E text \in AppQueries, draw \in 0..(DrawDen - 1) :
           HandleSendMessage(text, draw)
    \/ AnswerTaken

\* A line of values values, dated date, whose open cell is open and whose
\* high, low and close cells are close.
Row(values, date, open, close) ==
    [values |-> values, date |-> date, open |-> open, high |-> close,
     low |-> close, close |-> close]

\* The lines tried in every order: readable ones of every date, one with an
\* unreadable date, one whose close is no number and one short of a value.
IngestRows ==
    {Row(5, d, "1", "1") : d \in 1..MaxDate} \cup
    {Row(5, 0, "1", "1"), Row(5, 1, "1", "x"), Row(4, 1, "1", "1")}

\* Lines tried next to a readable one: an empty open cell, and cells that
\* start with white space or with digits.
OddRows == {Row(5, MaxDate, "", "1"), Row(5, 1, " 1", "2x")}

IngestFiles ==
    {[columns |-> TRUE, rows |-> r] : r \in SeqsUpTo(IngestRows, MaxLoadLen)}
    \cup {[columns |-> TRUE, rows |-> <<r, Row(5, 1, "1", "1")>>] : r \in OddRows}
    \cup {[columns |-> FALSE, rows |-> <<Row(5, 1, "1", "1")>>]}

\* The uploads of a session that stays on the upload tab until a text loads.
IngestNext ==
    \/ HandleFileUpload
    \/ \E f \in IngestFiles, rng \in AppStreams : FileLoaded(f, rng)
    \/ \E f \in IngestFiles : FileRejected(f)
    \/ ProcessStockDataFinish

SpanInit ==
    /\ stack = << >>
    /\ prices = << >>
    /\ spans = << >>
    /\ i = 0
    /\ spanPc = "idle"
    /\ spanCalls = 0
    /\ popLog = << >>

SpanNext ==
    \/ \E p \in PriceSeqs : CalculateSpanCall(p)
    \/ CalculateSpanIteration
    \/ CalculateSpanReturn

\* ------------------------------------------------- VoiceInterface
NoPromise == 0

NoVoiceError == ""

\* resolve() and reject() of promise p: a settled promise stays as it is.
Settle(ps, p, outcome) ==
    IF p # NoPromise /\ ps[p] = "pending" THEN [ps EXCEPT ![p] = outcome] ELSE ps

\* recognition.start(): it throws InvalidStateError on a recognizer that was
\* started and has not fired its end event.
StartThrows == recognizer # "idle"

\* startListening(onResult, onError) with handleVoiceInput's callbacks; p is
\* the promise it returns.
StartListening ==
    LET p == Len(promises) + 1
        created == Append(promises, "pending")
    IN  IF ~recognition
        THEN /\ promises' = Settle(created, p, "rejected")
             /\ voiceError' = "Voice recognition failed"
             /\ uiListening' = FALSE
             /\ UNCHANGED <<isListening, recognizer, handlers, session>>
        ELSE IF isListening
        THEN /\ promises' = Settle(created, p, "resolved")
             /\ uiListening' = TRUE
             /\ voiceError' = NoVoiceError
             /\ UNCHANGED <<isListening, recognizer, handlers, session>>
        ELSE IF StartThrows
        THEN /\ handlers' = p
             /\ isListening' = FALSE
             /\ promises' = Settle(created, p, "rejected")
             /\ voiceError' = "Voice recognition failed"
             /\ uiListening' = FALSE
             /\ UNCHANGED <<recognizer, session>>
        ELSE /\ handlers' = p
             /\ isListening' = TRUE
             /\ recognizer' = "started"
             /\ session' = p
             /\ promises' = created
             /\ uiListening' = TRUE
             /\ voiceError' = NoVoiceError

\* stopListening()
StopListening ==
    IF recognition /\ isListening
    THEN /\ recognizer' = (IF recognizer = "started" THEN "stopping" ELSE recognizer)
         /\ isListening' = FALSE
    ELSE UNCHANGED <<recognizer, isListening>>

\* handleVoiceInput: the microphone button
HandleVoiceInput ==
    /\ uiListening \/ Len(promises) < MaxVoiceCalls
    /\ IF uiListening
       THEN /\ StopListening
            /\ uiListening' = FALSE
            /\ UNCHANGED <<promises, handlers, session, voiceError>>
       ELSE IF ~recognition
       THEN /\ voiceError' = "Voice recognition is not supported in this browser"
            /\ UNCHANGED <<isListening, recognizer, promises, handlers,
                           session, uiListening>>
       ELSE StartListening
    /\ UNCHANGED <<recognition, inputText>>
    /\ UNCHANGED <<spanVars, maVars, corrVars, appVars, aiVars, uiVars>>

\* recognition.onresult: onResult(transcript), which is setInputText,
\* setIsListening(false) and handleSendMessage(transcript); then
\* this.isListening = false and resolve().
OnResult(transcript, draw) ==
    /\ recognizer \in {"started", "stopping"}
    /\ handlers # NoPromise
    /\ recognizer' = "ending"
    /\ uiListening' = FALSE
    /\ IF Len(Trim(transcript)) = 0
       THEN inputText' = transcript /\ UNCHANGED aiVars
       ELSE inputText' = "" /\ CallProcessQuery(transcript, draw)
    /\ isListening' = FALSE
    /\ promises' = Settle(promises, handlers, "resolved")
    /\ UNCHANGED <<recognition, handlers, session, voiceError>>
    /\ UNCHANGED <<spanVars, maVars, corrVars, appVars, uiVars>>

\* recognition.onerror: onError(error), this.isListening = false,
\* reject(error); the rejected await of handleVoiceInput then sets
\* voiceError again.
OnError ==
    /\ recognizer \in {"started", "stopping"}
    /\ handlers # NoPromise
    /\ recognizer' = "ending"
    /\ uiListening' = FALSE
    /\ isListening' = FALSE
    /\ voiceError' = (IF promises[handlers] = "pending"
                      THEN "Voice recognition failed"
                      ELSE "Speech recognition error")
    /\ promises' = Settle(promises, handlers, "rejected")
    /\ UNCHANGED <<recognition, handlers, session, inputText>>
    /\ UNCHANGED <<spanVars, maVars, corrVars, appVars, aiVars, uiVars>>

\* recognition.onend: this.isListening = false
OnEnd ==
    /\ recognizer # "idle"
    /\ handlers # NoPromise
    /\ recognizer' = "idle"
    /\ isListening' = FALSE
    /\ UNCHANGED <<recognition, promises, handlers, session, uiListening,
                   voiceError, inputText>>
    /\ UNCHANGED <<spanVars, maVars, corrVars, appVars, aiVars, uiVars>>

\* new VoiceInterface() in a browser without the Web Speech API:
\* initializeSpeechRecognition leaves this.recognition null.
NewVoiceInterface(supported) ==
    /\ promises = << >>
    /\ recognition # supported
    /\ recognition' = supported
    /\ isListening' = FALSE
    /\ UNCHANGED <<recognizer, promises, handlers, session, uiListening,
                   voiceError, inputText>>
    /\ UNCHANGED <<spanVars, maVars, corrVars, appVars, aiVars, uiVars>>

VoiceInit ==
    /\ recognition = TRUE
    /\ isListening = FALSE
    /\ recognizer = "idle"
    /\ promises = << >>
    /\ handlers = NoPromise
    /\ session = NoPromise
    /\ uiListening = FALSE
    /\ voiceError = NoVoiceError
    /\ inputText = ""

\* What the recognizer hears.
VoiceTranscripts == {"current price", "hello", " "}

VoiceNext ==
    \/ \E supported \in BOOLEAN : NewVoiceInterface(supported)
    \/ HandleVoiceInput
    \/ \E t \in VoiceTranscripts, draw \in 0..(DrawDen - 1) : OnResult(t, draw)
    \/ OnError
    \/ OnEnd
    \/ AnswerTaken

UIInit ==
    /\ chatProps = EmptyContext
    /\ effectPending = FALSE
    /\ pendingUploads = 0
    /\ csvText = NoFile
    /\ error = NoError

Init ==
    SpanInit /\ MAInit /\ CorrInit /\ AppInit /\ AIInit /\ UIInit /\ VoiceInit

SpecSpan == Init /\ [][SpanNext]_vars

\* The loop runs on: the for loop is never suspended.
SpecSpanFair ==
    /\ Init
    /\ [][SpanNext]_vars
    /\ WF_vars(CalculateSpanIteration)
    /\ WF_vars(CalculateSpanReturn)

SpecMA == Init /\ [][MANext]_vars
SpecMARounded == Init /\ [][MARoundedNext]_vars

SpecCorr == Init /\ [][CorrNext]_vars
SpecCorrSame == Init /\ [][CorrSameNext]_vars

SpecSentiment == Init /\ [][SentimentNext]_vars

SpecPipeline == Init /\ [][PipelineNext]_vars

SpecQuery == Init /\ [][QueryNext]_vars

SpecApp == Init /\ [][AppNext]_vars

SpecIngest == Init /\ [][IngestNext]_vars

SpecHandlers == Init /\ [][HandlersNext]_vars

SpecVoice == Init /\ [][VoiceNext]_vars

\* ------------------------------------------------------------ claims
\* The number of consecutive positions ending at k (1-based, k included)
\* whose close is <= p[k], stopping at the first earlier strictly greater one.
SpanByDefinition(p, k) ==
    CHOOSE c \in 1..k :
        /\ \A j \in (k - c + 1)..k : p[j] <= p[k]
        /\ (c < k => p[k - c] > p[k])

\* C1: every span calculateSpan has pushed for index i equals the number of
\* consecutive indices ending at i whose close is <= closes[i], the count
\* stopping at the first earlier index with a strictly greater close.
C1_SpanIsConsecutiveCount ==
    \A k \in 1..Len(spans) : spans[k] = SpanByDefinition(prices, k)

C1_Witness ==
    /\ spanPc = "returned"
    /\ prices = <<3, 1, 2, 3>>
    /\ spans = <<1, 1, 2, 4>>

\* C7: for a non-empty input, the returned sequence has the input's length
\* and 1 <= span[i] <= i+1 at every index (k = i+1 below).
C7_SpanLengthAndRange ==
    (spanPc = "returned" /\ Len(prices) > 0) =>
        /\ Len(spans) = Len(prices)
        /\ \A k \in 1..Len(spans) : 1 <= spans[k] /\ spans[k] <= k

C7_Witness ==
    /\ spanPc = "returned"
    /\ Len(prices) = MaxSpanLen
    /\ \E k \in 1..Len(spans) : 1 < spans[k] /\ spans[k] < k

StrictlyIncreasing(p) == \A k \in 1..(Len(p) - 1) : p[k] < p[k + 1]

StrictlyDecreasing(p) == \A k \in 1..(Len(p) - 1) : p[k] > p[k + 1]

Constant(p) == \A k \in 1..(Len(p) - 1) : p[k] = p[k + 1]

\* C8: an empty input returns an empty output; a strictly increasing or a
\* constant input returns every span equal to its 1-based position; a
\* strictly decreasing input returns every span equal to 1.
C8_SpanEdgeCases ==
    spanPc = "returned" =>
        /\ (Len(prices) = 0 => spans = << >>)
        /\ (StrictlyIncreasing(prices) \/ Constant(prices)) =>
               spans = [k \in 1..Len(prices) |-> k]
        /\ (StrictlyDecreasing(prices) /\ Len(prices) > 0) =>
               spans = [k \in 1..Len(prices) |-> 1]

C8_Witness ==
    /\ spanPc = "returned"
    /\ Len(prices) >= 3
    /\ Constant(prices)
    /\ spans = [k \in 1..Len(prices) |-> k]

\* The sum of s[lo..hi].
RECURSIVE SumCloses(_, _, _)
SumCloses(data, lo, hi) ==
    IF lo > hi THEN 0 ELSE data[lo].close + SumCloses(data, lo + 1, hi)

\* The quotient q equals the rational a / b (b > 0).
QuotIs(q, a, b) == q.den > 0 /\ q.num * b = a * q.den

AllEqual(x) == \A a, b \in DOMAIN x : x[a] = x[b]

\* C9: calculateSentimentSpanCorrelation returns exactly 0, and never NaN,
\* whenever the two series differ in length, or have fewer than 2 paired
\* points, or all sentiment scores are equal, or all spans are equal.
C9_DegenerateCorrelationIsZero ==
    (/\ corrPc = "returned"
     /\ \/ Len(corrSentiment) # Len(corrStock)
        \/ Len(corrSentiment) < 2
        \/ AllEqual([k \in 1..Len(corrSentiment) |-> corrSentiment[k].score])
        \/ AllEqual([k \in 1..Len(corrStock) |-> corrStock[k].span]))
    => corrResult = CorrZero

\* C10: in the AnalysisResult processStockData assembles, the span-annotated
\* series, the moving-average records and the sentiment samples have the
\* input's length, and at every index each carries the input record's date.
C10_ResultSequencesAligned ==
    analysisResult.id > 0 =>
        /\ Len(analysisResult.stockData) = Len(loadInput)
        /\ Len(analysisResult.movingAverages) = Len(loadInput)
        /\ Len(analysisResult.sentimentData) = Len(loadInput)
        /\ \A k \in 1..Len(loadInput) :
               /\ analysisResult.stockData[k].date = loadInput[k].date
               /\ analysisResult.movingAverages[k].date = loadInput[k].date
               /\ analysisResult.sentimentData[k].date = loadInput[k].date

C10_Witness ==
    /\ analysisResult.id = 2
    /\ Len(loadInput) = 3
    /\ loadInput[1].date = 1
    /\ loadInput[3].date = 2
    /\ analysisResult.movingAverages[3].date = 2
    /\ analysisResult.sentimentData[3].date = 2
    /\ analysisResult.stockData[3].span = 3

\* The fixed order of the matchers, by the handler each dispatches to.
MatcherOrder ==
    <<"handleMovingAverageQuery", "handleCurrentSpanQuery", "handlePriceQuery",
      "handleTrendQuery", "handleRecommendationQuery", "handleHighQuery",
      "handleLowQuery">>

\* The matcher of the named handler succeeds on the normalized query q.
MatcherSucceeds(name, q) ==
    \E k \in 1..Len(patterns) :
        patterns[k].handler = name /\ Matches(q, patterns[k].pattern)

\* C3: processQuery dispatches to the handler of the first matcher, in the
\* order MovingAverage, Span, Price, Trend, Recommendation, High, Low, that
\* succeeds on the lower-cased trimmed query, and produces the default
\* response only when no matcher succeeds.
C3_FirstMatcherWins ==
    aiPc = "answered" =>
        LET q    == NormalizedQuery(lastQuery)
            hits == {j \in 1..Len(MatcherOrder) :
                        MatcherSucceeds(MatcherOrder[j], q)}
        IN  IF hits = {} THEN lastHandler = "getDefaultResponse"
            ELSE lastHandler =
                     MatcherOrder[CHOOSE j \in hits : \A h \in hits : j <= h]

C3_Witness ==
    /\ aiPc = "answered"
    /\ lastQuery = "price trend"
    /\ MatcherSucceeds("handlePriceQuery", "price trend")
    /\ MatcherSucceeds("handleTrendQuery", "price trend")
    /\ lastHandler = "handlePriceQuery"

\* C4: for every query, the empty one and gibberish included, and every
\* context, an empty series or empty averages included, processQuery settles
\* with a non-empty string and throws nothing.
C4_AlwaysNonEmptyString ==
    aiPc = "answered" =>
        /\ lastAnswer.type = "string"
        /\ Len(lastAnswer.text) > 0

C4_Witness ==
    /\ aiPc = "answered"
    /\ lastQuery = "show me ma 10"
    /\ lastReads.stockData # << >>
    /\ lastReads.movingAverages = << >>
    /\ lastAnswer.type = "string"
    /\ Len(lastAnswer.text) > 0

\* C5: every answer is computed from the series and the averages of one
\* result: both derive from the same loaded series, or both are the empty
\* arrays of a chat that has not been given a result.
C5_AnswerFromOneSnapshot ==
    aiPc = "answered" =>
        \/ lastReads = EmptyContext
        \/ \E c \in AppCloses : lastReads = ContextOf(c)

C5_Witness ==
    /\ aiPc = "answered"
    /\ analysisResult.id = 2
    /\ lastHandler = "handleRecommendationQuery"
    /\ lastReads = PropsOf(analysisResult)
    /\ lastReads = ContextOf(<<2, 1, 2>>)

\* C6: "what's the 10 day average" put to a context whose latest 10-day
\* average is 123.45 is routed to the moving-average handler and answered
\* with a text containing "123.45".
C6_TenDayAverageAnswered ==
    (/\ aiPc = "answered"
     /\ lastQuery = "what's the 10 day average"
     /\ lastReads = ExampleContext)
        => /\ lastHandler = "handleMovingAverageQuery"
           /\ Includes(lastAnswer.text, "123.45")

\* The latest records an answer read.
LatestStock == Last(lastReads.stockData)

LatestMA == Last(lastReads.movingAverages)

\* C11: on a context with a series and averages, the recommendation is BUY
\* exactly when the bullish signals (latest close above the latest 10-day
\* average, latest span > 7) outnumber the bearish ones (close below the
\* average, span <= 2), SELL exactly when the bearish outnumber the bullish,
\* and HOLD exactly when the counts are equal.
C11_RecommendationBySignalCount ==
    (/\ aiPc = "answered"
     /\ lastHandler = "handleRecommendationQuery"
     /\ Len(lastReads.stockData) > 0
     /\ Len(lastReads.movingAverages) > 0
     /\ HasMA(LatestMA, 10))
        => LET ma10    == LatestMA.ma[10]
               above   == LatestStock.close * ma10.den > ma10.num
               below   == LatestStock.close * ma10.den < ma10.num
               bullish == (IF above THEN 1 ELSE 0)
                              + (IF LatestStock.span > 7 THEN 1 ELSE 0)
               bearish == (IF below THEN 1 ELSE 0)
                              + (IF LatestStock.span <= 2 THEN 1 ELSE 0)
           IN  /\ Includes(lastAnswer.text, "**BUY**") <=> bullish > bearish
               /\ Includes(lastAnswer.text, "**SELL**") <=> bearish > bullish
               /\ Includes(lastAnswer.text, "**HOLD**") <=> bullish = bearish

C11_Witness ==
    /\ aiPc = "answered"
    /\ lastHandler = "handleRecommendationQuery"
    /\ Len(lastReads.stockData) > 0
    /\ LatestStock.span = 8
    /\ LatestStock.close * LatestMA.ma[10].den < LatestMA.ma[10].num
    /\ Includes(lastAnswer.text, "**HOLD**")

\* C12: "should I buy or sell" on a context whose latest close is above the
\* latest 10-day average and whose latest span is 9 reaches the
\* recommendation handler and returns BUY with both bullish signals listed.
C12_BuyOnTwoBullishSignals ==
    (/\ aiPc = "answered"
     /\ lastQuery = "should I buy or sell"
     /\ Len(lastReads.stockData) > 0
     /\ Len(lastReads.movingAverages) > 0
     /\ HasMA(LatestMA, 10)
     /\ LatestStock.close * LatestMA.ma[10].den > LatestMA.ma[10].num
     /\ LatestStock.span = 9)
        => /\ lastHandler = "handleRecommendationQuery"
           /\ Includes(lastAnswer.text, "**BUY**")
           /\ Includes(lastAnswer.text, "Price above 10-day MA (Bullish)")
           /\ Includes(lastAnswer.text,
                       "High span indicates strong momentum (Bullish)")

C12_Witness ==
    /\ aiPc = "answered"
    /\ lastQuery = "should I buy or sell"
    /\ lastReads = ContextOf(<<3, 1, 1, 1, 1, 1, 1, 1, 1, 2>>)
    /\ LatestStock.span = 9
    /\ LatestStock.close * LatestMA.ma[10].den > LatestMA.ma[10].num
    /\ Includes(lastAnswer.text, "**BUY**")

\* C13: a query that reaches the moving-average handler is answered for the
\* window named by the integer in the query (10 when it has none): with that
\* window's latest average when the latest record has one, else with the
\* list of the latest averages of the windows 5, 10 and 20.
C13_WindowFromQueryInteger ==
    (/\ aiPc = "answered"
     /\ lastHandler = "handleMovingAverageQuery"
     /\ Len(lastReads.movingAverages) > 0)
        => LET run  == FirstDigitRun(NormalizedQuery(lastQuery))
               days == IF run = "" THEN 10 ELSE ParseInt(run)
           IN  IF HasMA(LatestMA, days)
               THEN lastAnswer.text =
                        "The " \o ToString(days) \o "-day moving average is $"
                            \o FixedText(LatestMA.ma[days]) \o "."
               ELSE Includes(lastAnswer.text,
                             "I have moving averages for 5, 10, and 20 days.")

TrendLabels == {"bullish uptrend", "bearish downtrend", "sideways consolidation"}

\* C14: with five records or more, the trend answer carries exactly one
\* label, decided by the four close-to-close changes of the last five
\* records (three or more rises: bullish uptrend; else three or more falls:
\* bearish downtrend; else sideways consolidation), and says strong momentum
\* exactly when the latest span is above 5.
C14_TrendFromLastFive ==
    (/\ aiPc = "answered"
     /\ lastHandler = "handleTrendQuery"
     /\ Len(lastReads.stockData) >= 5)
        => LET sd     == lastReads.stockData
               n      == Len(sd)
               delta(j) == sd[n - 4 + j].close - sd[n - 5 + j].close
               rises  == Cardinality({j \in 1..4 : delta(j) > 0})
               falls  == Cardinality({j \in 1..4 : delta(j) < 0})
               label  == IF rises >= 3 THEN "bullish uptrend"
                         ELSE IF falls >= 3 THEN "bearish downtrend"
                         ELSE "sideways consolidation"
           IN  /\ \A l \in TrendLabels :
                      Includes(lastAnswer.text, l) <=> l = label
               /\ Includes(lastAnswer.text, "strong momentum")
                      <=> sd[n].span > 5
               /\ Includes(lastAnswer.text, "weak momentum")
                      <=> sd[n].span <= 5

C14_Witness ==
    /\ aiPc = "answered"
    /\ lastHandler = "handleTrendQuery"
    /\ lastReads = ContextOf(<<1, 1, 1, 2, 3, 4>>)
    /\ Includes(lastAnswer.text, "bullish uptrend")
    /\ Includes(lastAnswer.text, "strong momentum")

SpanNotes ==
    {"strong bullish trend", "moderate bullish momentum",
     "bearish pressure or consolidation", "neutral market sentiment"}

\* C15: the span answer reports the latest record's span with exactly one
\* note: strong bullish above 10, moderate bullish for 6..10, bearish or
\* consolidation up to 2, neutral for 3..5.
C15_SpanNoteByThreshold ==
    (/\ aiPc = "answered"
     /\ lastHandler = "handleCurrentSpanQuery"
     /\ Len(lastReads.stockData) > 0)
        => LET span == LatestStock.span
               note == IF span > 10 THEN "strong bullish trend"
                       ELSE IF span > 5 /\ span <= 10
                       THEN "moderate bullish momentum"
                       ELSE IF span <= 2
                       THEN "bearish pressure or consolidation"
                       ELSE "neutral market sentiment"
           IN  /\ Includes(lastAnswer.text,
                           "The current stock span is " \o ToString(span)
                               \o " days.")
               /\ \A t \in SpanNotes :
                      Includes(lastAnswer.text, t) <=> t = note

C15_Witness ==
    /\ aiPc = "answered"
    /\ lastHandler = "handleCurrentSpanQuery"
    /\ Len(lastReads.stockData) > 0
    /\ LatestStock.span = 10
    /\ Includes(lastAnswer.text, "The current stock span is 10 days.")
    /\ Includes(lastAnswer.text, "moderate bullish momentum")

\* C16: on a series with records, the high answer reports the greatest high
\* of all records with the date of the first record that has it, and the low
\* answer the least low with the date of the first record that has it.
C16_ExtremeWithFirstDate ==
    (/\ aiPc = "answered"
     /\ Len(lastReads.stockData) > 0)
        => LET sd == lastReads.stockData
               isMaxAt(k) == \A j \in 1..Len(sd) : sd[j].high <= sd[k].high
               isMinAt(k) == \A j \in 1..Len(sd) : sd[j].low >= sd[k].low
               firstMax == CHOOSE k \in 1..Len(sd) :
                               isMaxAt(k) /\ \A j \in 1..(k - 1) : ~isMaxAt(j)
               firstMin == CHOOSE k \in 1..Len(sd) :
                               isMinAt(k) /\ \A j \in 1..(k - 1) : ~isMinAt(j)
           IN  /\ lastHandler = "handleHighQuery" =>
                      lastAnswer.text =
                          "The highest price was $"
                              \o FixedText(Num(sd[firstMax].high)) \o " on "
                              \o DateText(sd[firstMax].date) \o "."
               /\ lastHandler = "handleLowQuery" =>
                      lastAnswer.text =
                          "The lowest price was $"
                              \o FixedText(Num(sd[firstMin].low)) \o " on "
                              \o DateText(sd[firstMin].date) \o "."

C16_Witness ==
    /\ aiPc = "answered"
    /\ lastHandler = "handleHighQuery"
    /\ lastReads = ContextOf(<<1, 3, 2, 3, 1>>)
    /\ lastAnswer.text = "The highest price was $4.00 on 2024-01-02."

\* C17: a trend query on fewer than five records returns the need-more-data
\* advisory, and a recommendation query on an empty series or empty averages
\* returns the data-missing advisory; nothing is thrown and the instance's
\* series and averages are what they were.
C17_AdvisoryOnMissingData ==
    aiPc = "answered" =>
        /\ (lastHandler = "handleTrendQuery" /\ Len(lastReads.stockData) < 5)
               => /\ lastAnswer =
                         Str("I need more data to analyze the trend. Please provide at least 5 days of data.")
                  /\ AI = lastReads
        /\ (/\ lastHandler = "handleRecommendationQuery"
            /\ \/ Len(lastReads.stockData) = 0
               \/ Len(lastReads.movingAverages) = 0)
               => /\ lastAnswer =
                         Str("I need stock data to provide recommendations. Please upload data first.")
                  /\ AI = lastReads

C17_Witness ==
    /\ aiPc = "answered"
    /\ lastHandler = "handleTrendQuery"
    /\ Len(lastReads.stockData) = 4
    /\ Includes(lastAnswer.text, "I need more data to analyze the trend.")
    /\ Len(aiStockData) = 4

GuidanceStrings ==
    {"I can help you analyze stock data! Try asking about moving averages, current prices, trends, or recommendations.",
     "Ask me about stock spans, price movements, or technical analysis. I'm here to help!",
     "I can provide insights on trends, moving averages, and trading recommendations. What would you like to know?"}

\* C18: when no matcher succeeds on a query, the answer is one of the three
\* guidance strings, whichever random value is drawn.
C18_DefaultFromFixedSet ==
    (/\ aiPc = "answered"
     /\ \A j \in 1..Len(MatcherOrder) :
            ~MatcherSucceeds(MatcherOrder[j], NormalizedQuery(lastQuery)))
        => /\ lastAnswer.type = "string"
           /\ lastAnswer.text \in GuidanceStrings

C18_Witness ==
    /\ aiPc = "answered"
    /\ lastQuery = "xyz"
    /\ lastHandler = "getDefaultResponse"
    /\ lastAnswer.text =
           "I can provide insights on trends, moving averages, and trading recommendations. What would you like to know?"

\* C19: a calculator with window size 1 reports at every position an average
\* equal to that position's close.
C19_WindowOneIsIdentity ==
    (maPc = "returned" /\ 1 \in Range(windowSizes)) =>
        /\ Len(result) = Len(maData)
        /\ \A k \in 1..Len(maData) :
               /\ 1 \in DOMAIN result[k].ma
               /\ QuotIs(result[k].ma[1], maData[k].close, 1)

\* C20: the step that processes a close for one window size leaves the FIFO
\* and the running sum of every other window size as they were.
C20_StepTouchesOwnWindowOnly ==
    [][(maPc = "forEach" /\ maWin' = maWin + 1) =>
           \A w \in Range(windowSizes) \ {windowSizes[maWin]} :
               /\ queues'[w] = queues[w]
               /\ sums'[w] = sums[w]]_vars

C20_Witness ==
    /\ maPc = "forEach"
    /\ windowSizes = <<1, 2>>
    /\ maIndex = 1
    /\ maWin = 2
    /\ queues[1] = <<2>>
    /\ queues[2] = <<1>>
    /\ sums[1] = 2
    /\ sums[2] = 1

\* C21: a second calculateMovingAverages call on the same calculator returns
\* what a fresh calculator with the same window sizes returns for the same
\* series, and it starts from empty queues and zero sums.
C21_SecondCallAsFresh ==
    /\ (maPc = "returned" /\ maCalls >= 2) =>
           result = CalculateMovingAverages(windowSizes, maData)
    /\ (maPc = "forEach" /\ maCalls >= 2 /\ maIndex = 0 /\ maWin = 1) =>
           /\ queues = ResetQueues(windowSizes)
           /\ sums = ResetSums(windowSizes)

C21_Witness ==
    /\ maPc = "returned"
    /\ maCalls = 2
    /\ windowSizes = <<2, 3>>
    /\ maData = SeriesOf(<<2, 1>>)
    /\ Len(queues[3]) = 2
    /\ result = CalculateMovingAverages(<<2, 3>>, SeriesOf(<<2, 1>>))

\* C22: a second calculateSpan call on the same calculator returns what a
\* fresh calculator returns for the same sequence, and it starts from an empty
\* stack.
C22_SecondSpanCallAsFresh ==
    /\ (spanPc = "returned" /\ spanCalls >= 2) => spans = CalculateSpan(prices)
    /\ (spanPc = "loop" /\ spanCalls >= 2 /\ i = 0) => stack = << >>

C22_Witness ==
    /\ spanPc = "returned"
    /\ spanCalls = 2
    /\ prices = <<1, 2, 1>>
    /\ spans = <<1, 2, 1>>
    /\ Len(stack) = 2

\* C23: the correlation of two identical non-constant series of length >= 2
\* is the quotient of a positive numerator and a denominator equal to it.
C23_IdenticalSeriesCorrelateToOne ==
    (/\ corrPc = "returned"
     /\ Len(corrSentiment) >= 2
     /\ Len(corrSentiment) = Len(corrStock)
     /\ \A k \in 1..Len(corrSentiment) :
            corrSentiment[k].score = corrStock[k].span * ScoreScale
     /\ ~AllEqual([k \in 1..Len(corrStock) |-> corrStock[k].span]))
    => /\ corrResult.kind = "ratio"
       /\ corrResult.num > 0
       /\ FMul(corrResult.num, corrResult.num) = corrResult.rad

\* C24: every record analyzeSentiment returns has a score in [-1, 1], a
\* confidence in [0.6, 1.0] and an integer volume in [100, 1000], and the
\* first record's score is the noise alone, its price-change term being 0.
C24_SentimentRanges ==
    corrPc = "analyzed" =>
        /\ Len(corrSentiment) = Len(corrStock)
        /\ \A k \in 1..Len(corrSentiment) :
               LET r == corrSentiment[k]
               IN  /\ r.score >= 0 - ScoreScale /\ r.score <= ScoreScale
                   /\ 5 * r.confidence.num >= 3 * r.confidence.den
                   /\ r.confidence.num <= r.confidence.den
                   /\ r.volume >= 100 /\ r.volume <= 1000
        /\ Len(corrSentiment) > 0 =>
               corrSentiment[1].score \in
                   {ClampScore(Noise(r)) : r \in 0..(RandomDen - 1)}

\* C25: what handleFileUpload hands to onDataLoad is never empty, holds
\* exactly the rows of the text whose open, high, low and close parse to
\* numbers, and is in ascending order of date; a text without such a row sets
\* the error and leaves the analysis as it was.
C25_ValidRowsSortedOrError ==
    /\ (appPc = "setActiveTab" /\ csvText # NoFile) =>
           /\ Len(loadInput) > 0
           /\ loadInput \in Reorderings(KeptRows(csvText.rows))
           /\ \A k, l \in 1..Len(loadInput) :
                  (k < l /\ IsDate(loadInput[k].date) /\ IsDate(loadInput[l].date))
                      => loadInput[k].date <= loadInput[l].date
    /\ (csvText # NoFile /\ Len(KeptRows(csvText.rows)) = 0) =>
           /\ error # NoError
           /\ appPc = "idle"

\* C26: once calculateSpan has processed an index, the stack's indices rise
\* strictly and its prices fall strictly from bottom to top, each entry holds
\* the price of its index, and the top entry is the index just processed.
C26_StackMonotone ==
    (spanPc \in {"loop", "returned"} /\ i > 0) =>
        /\ Len(stack) > 0
        /\ Last(stack).index = i - 1
        /\ \A k \in 1..Len(stack) :
               /\ stack[k].index \in 0..(i - 1)
               /\ stack[k].price = prices[stack[k].index + 1]
        /\ \A k \in 1..(Len(stack) - 1) :
               /\ stack[k].index < stack[k + 1].index
               /\ stack[k].price > stack[k + 1].price

C26_Witness ==
    /\ spanPc = "loop"
    /\ prices = <<3, 1, 2, 2>>
    /\ i = 3
    /\ stack = <<[index |-> 0, price |-> 3], [index |-> 2, price |-> 2]>>

\* C27: during a calculateSpan call every index processed so far has been
\* pushed once and popped at most once: it is either on the stack or among
\* the popped, never both and never twice, so the pops never exceed the number
\* of closes; and the call returns.
C27_PushedOncePoppedAtMostOnce ==
    /\ [](spanPc \in {"loop", "returned"} =>
             /\ Len(stack) + Len(popLog) = i
             /\ Injective(popLog)
             /\ {stack[k].index : k \in 1..Len(stack)} \cup Range(popLog)
                    = 0..(i - 1)
             /\ Len(popLog) <= Len(prices)
             /\ i <= Len(prices))
    /\ (spanPc = "loop" ~> spanPc = "returned")

C27_Witness ==
    /\ spanPc = "returned"
    /\ prices = <<2, 1, 1, 3>>
    /\ popLog = <<1, 2, 0>>
    /\ stack = <<[index |-> 3, price |-> 3]>>

\* The number of closes window position k of windowSizes has processed.
Processed(k) ==
    IF maPc = "forEach" /\ k < maWin /\ maIndex < Len(maData)
    THEN maIndex + 1 ELSE maIndex

\* C28: once a close is processed for window size w, w's queue holds at most
\* w values, they are the most recent closes in arrival order, and the stored
\* sum of w is the sum of the queue's contents.
C28_QueueAndSumInvariant ==
    maPc \in {"forEach", "returned"} =>
        \A k \in 1..Len(windowSizes) :
            LET w == windowSizes[k]
                n == Processed(k)
                lo == IF n < w THEN 1 ELSE n - w + 1
            IN  /\ Len(queues[w]) <= w
                /\ queues[w] = [j \in 1..(n - lo + 1) |-> maData[lo + j - 1].close]
                /\ sums[w] = SumCloses(maData, lo, n)
\* ---------------------------------------------------------------- C29
\* C29: once a startListening call has started a recognition session, when
\* that session has ended (the recognizer is idle again, after a result, an
\* error or a bare end event) isListening is false and the promise that
\* call returned is settled.
C29_EndedSessionIsSettled ==
    (session # NoPromise /\ recognizer = "idle") =>
        /\ ~isListening
        /\ promises[session] # "pending"

\* The part of the statement that holds: isListening is false once the
\* session has ended.
C29_EndedSessionNotListening ==
    (session # NoPromise /\ recognizer = "idle") => ~isListening

\* ---------------------------------------------------------------- C30
\* The quotients a and b are the same number.
SameQuot(a, b) == a.den # 0 /\ b.den # 0 /\ a.num * b.den = b.num * a.den

\* C30: for the analysed series, when it has at least two records, the
\* percentage change AnalysisResults shows is the change from the
\* second-to-last close to the last close, the value StockChart and the
\* price-query handler compute from that series; it is 0 only when the two
\* closes are equal.
C30_SamePriceChangeEverywhere ==
    LET sd == analysisResult.stockData
        n  == Len(sd)
    IN  (analysisResult.id # 0 /\ n >= 2) =>
            /\ SameQuot(AnalysisPriceChange(sd),
                        Quot(100 * (sd[n].close - sd[n - 1].close), sd[n - 1].close))
            /\ SameQuot(AnalysisPriceChange(sd), ChartPriceChangePercent(sd))
            /\ SameQuot(AnalysisPriceChange(sd), PriceQueryChangePercent(sd))
            /\ (AnalysisPriceChange(sd).num = 0 => sd[n].close = sd[n - 1].close)

\* The part of the statement that holds: StockChart and the price-query
\* handler agree on the change from the second-to-last close to the last.
C30_ChartAndQueryAgree ==
    LET sd == analysisResult.stockData
        n  == Len(sd)
    IN  (analysisResult.id # 0 /\ n >= 2) =>
            /\ SameQuot(ChartPriceChangePercent(sd), PriceQueryChangePercent(sd))
            /\ SameQuot(ChartPriceChangePercent(sd),
                        Quot(100 * (sd[n].close - sd[n - 1].close), sd[n - 1].close))

=============================================================================
